---- MODULE Spec2Model ----
(***************************************************************************)
(* pyTime: the share-code directory (sharing/s3_code_provider.py).         *)
(*                                                                         *)
(* S3CodeProvider keeps every share code in one JSON document stored at    *)
(* the key _system/codes.json of the bucket.  generate_code, resolve_code  *)
(* and revoke_code each read the whole document with get_object;           *)
(* generate_code and revoke_code then write the whole document back with   *)
(* put_object.  Several callers (one CLI process each) share the bucket,   *)
(* so the calls of different callers interleave at the store requests.     *)
(*                                                                         *)
(* Values that are "None or x" in the Python code are sequences of length  *)
(* 0 or 1 here: None is << >> and x is << x >>.                            *)
(***************************************************************************)
EXTENDS Integers, Sequences, FiniteSets, TLC

VARIABLES
    now,        \* datetime.now(timezone.utc), in whole hours
    bucket,     \* the S3 bucket: key -> body, for the keys that exist
    pc,         \* per caller: where it stands inside its current call
    cur,        \* per caller: the locals of its current call
    last,       \* per caller: its latest finished call (history)
    nputs,      \* history: number of put_object requests that succeeded
    ncalls,     \* history: number of calls started
    username,   \* main(): what prompt_username returned, None before
    upc,        \* where the interactive session stands
    ui,         \* the locals of the menu flow that is running
    listing,    \* the locals of the listing call that is running
    boot        \* main(): the S3Client in use and how connecting to it went

vars ==
    <<now, bucket, pc, cur, last, nputs, ncalls, username, upc, ui, listing,
      boot>>

\* The variables of the code directory's callers, and of the session.
shareVars == <<now, pc, cur, last, nputs, ncalls>>
uiVars == <<username, upc, ui, listing, boot>>

----------------------------------------------------------------------------
(* Bounds of the model *)

MaxClock == 2       \* the clock stops advancing at this hour
MaxCalls == 2       \* calls started over all callers
MaxDraws == 2       \* colliding draws modelled per generate_code call
MaxFlows == 2       \* menu choices taken in one session
PageSize == 2       \* entries the store puts on one page of a listing
MaxLists == 3       \* list_folder calls one flow makes by the user's choices

Procs == {"cli1", "cli2"}
Caller == "cli1"
Paths == {"alice/docs/", "bob/pics/"}
ExpiryHours == {1}

None == << >>
Some(x) == << x >>
IsNone(o) == o = << >>
Val(o) == o[1]

----------------------------------------------------------------------------
(* Characters and str.upper() / str.lower() *)

\* "K_212A" stands for the one character U+212A KELVIN SIGN, an uppercase
\* letter whose lowercase is "k" and whose uppercase is itself.
DrawChars == {"K", "7"}
ArgChars == {"K", "k", "K_212A", "7"}

CODES_KEY == "_system/codes.json"
CODE_CHARS == {"A", "B", "C", "D", "E", "F", "G", "H", "I", "J", "K", "L", "M",
               "N", "O", "P", "Q", "R", "S", "T", "U", "V", "W", "X", "Y", "Z",
               "0", "1", "2", "3", "4", "5", "6", "7", "8", "9"}
CODE_LENGTH == 6

UpperChar(c) == IF c = "k" THEN "K" ELSE c
LowerChar(c) == IF c \in {"K", "K_212A"} THEN "k" ELSE c

Upper(s) == [i \in DOMAIN s |-> UpperChar(s[i])]
Lower(s) == [i \in DOMAIN s |-> LowerChar(s[i])]

\* (mutant) one character short
RandomChoicesOneShort(population, k) ==
    {[i \in 1..(k - 1) |-> c] : c \in population \cap DrawChars}

\* random.choices(population, k=k): the draws modelled are the k-fold
\* repetitions of one character of the population (as in the tests).
RandomChoices(population, k) ==
    {[i \in 1..k |-> c] : c \in population \cap DrawChars}

\* The code strings callers pass to resolve_code and revoke_code.
CodeArgs == {[i \in 1..CODE_LENGTH |-> c] : c \in ArgChars}
RaceArgs == {[i \in 1..CODE_LENGTH |-> c] : c \in DrawChars}

----------------------------------------------------------------------------
(* datetime.isoformat / datetime.fromisoformat, json.dumps / json.loads *)

IsoFormat(t) == [iso |-> t]
FromIsoFormat(s) == s.iso

\* A dict is a function; its JSON text is the set of its key/value members.
JsonDumps(d) == {<<k, d[k]>> : k \in DOMAIN d}
JsonLoads(body) ==
    [k \in {m[1] : m \in body} |-> (CHOOSE m \in body : m[1] = k)[2]]

EmptyDict == << >>
DictGet(d, k) == IF k \in DOMAIN d THEN Some(d[k]) ELSE None
DictSet(d, k, v) == [x \in DOMAIN d \cup {k} |-> IF x = k THEN v ELSE d[x]]
DictPop(d, k) == [x \in DOMAIN d \ {k} |-> d[x]]

----------------------------------------------------------------------------
(* S3CodeProvider helpers *)

\* The error code of the ClientError a store request ends with, None when
\* the request succeeds: the store refuses the request (ok is FALSE), or
\* get_object finds no object at the key.
PutObjectError(ok) == IF ok THEN None ELSE Some("AccessDenied")
GetObjectError(b, key, ok) ==
    IF ~ok THEN Some("AccessDenied")
    ELSE IF key \notin DOMAIN b THEN Some("NoSuchKey")
    ELSE None

\* (mutant) every ClientError of get_object is re-raised
ReadCodesReraisesAll(error) == ~IsNone(error)

\* _read_codes lines 73-76: NoSuchKey and 404 give {}, any other error is
\* re-raised.
ReadCodesReraises(error) ==
    ~IsNone(error) /\ Val(error) \notin {"NoSuchKey", "404"}

\* _read_codes when get_object answers: the parsed body, or {} on NoSuchKey.
ReadCodes(b) ==
    IF CODES_KEY \in DOMAIN b THEN JsonLoads(b[CODES_KEY]) ELSE EmptyDict

\* (mutant) the document is written under another key than the one read
WriteCodesOtherKey(b, codes) ==
    [k \in DOMAIN b \cup {"codes.json"} |->
        IF k = "codes.json" THEN JsonDumps(codes) ELSE b[k]]

\* (mutant) the entries written are merged into the stored document
WriteCodesMerged(b, codes) ==
    LET old == IF CODES_KEY \in DOMAIN b THEN JsonLoads(b[CODES_KEY])
               ELSE << >>
        new == [k \in DOMAIN old \cup DOMAIN codes |->
                   IF k \in DOMAIN codes THEN codes[k] ELSE old[k]]
    IN  [k \in DOMAIN b \cup {CODES_KEY} |->
            IF k = CODES_KEY THEN JsonDumps(new) ELSE b[k]]

\* (mutant) entries past their expires_at are dropped from what is written
WriteCodesPurgesExpired(b, codes) ==
    LET kept == {k \in DOMAIN codes :
                    ~("expires_at" \in DOMAIN codes[k]
                          /\ now > codes[k].expires_at.iso)}
    IN  [k \in DOMAIN b \cup {CODES_KEY} |->
            IF k = CODES_KEY THEN JsonDumps([c \in kept |-> codes[c]]) ELSE b[k]]

\* _write_codes when put_object succeeds: the bucket afterwards.
WriteCodes(b, codes) ==
    [k \in DOMAIN b \cup {CODES_KEY} |->
        IF k = CODES_KEY THEN JsonDumps(codes) ELSE b[k]]

\* (mutant) the membership test is inverted
UniqueCodeAcceptsStored(existing, code) == code \in DOMAIN existing

\* (mutant) a draw that meets an expired entry is taken
UniqueCodeSkipsExpired(existing, code) ==
    \/ code \notin DOMAIN existing
    \/ /\ "expires_at" \in DOMAIN existing[code]
       /\ now > existing[code].expires_at.iso

\* (mutant) the first draw is taken whatever the document holds
UniqueCodeAcceptsAny(existing, code) == TRUE

\* _unique_code: the test that ends the draw loop.
UniqueCodeAccepts(existing, code) == code \notin DOMAIN existing

\* generate_code line 42 and lines 43-45.
NewEntry(path, t) == [path |-> path, created_at |-> IsoFormat(t)]
WithExpiry(entry, t, hours) ==
    [path |-> entry.path, created_at |-> entry.created_at,
     expires_at |-> IsoFormat(t + hours)]

HasExpiry(entry) == "expires_at" \in DOMAIN entry

\* (mutant) expires_at is never looked at
ResolveEntryNoExpiry(entry, t) == Some(entry.path)

\* (mutant) the entry is absent from the instant of its expires_at on
ResolveEntryAtBoundary(entry, t) ==
    IF HasExpiry(entry) /\ t >= FromIsoFormat(entry.expires_at)
    THEN None
    ELSE Some(entry.path)

\* resolve_code lines 54-58, given the entry found and the clock read.
ResolveEntry(entry, t) ==
    IF HasExpiry(entry) /\ t > FromIsoFormat(entry.expires_at)
    THEN None
    ELSE Some(entry.path)

\* (mutant) the code is looked up as given, without .upper()
LookupEntryAsGiven(codes, code) == DictGet(codes, code)

\* resolve_code line 51: codes.get(code.upper())
LookupEntry(codes, code) == DictGet(codes, Upper(code))

\* resolve_code as a function of the document read and the clock.
ResolveCode(codes, code, t) ==
    LET entry == LookupEntry(codes, code)
    IN  IF IsNone(entry) THEN None ELSE ResolveEntry(Val(entry), t)

\* (mutant) the code is popped as given, without .upper()
RevokePopAsGiven(codes, code) ==
    [raised |-> FALSE, codes |-> DictPop(codes, code)]

\* (mutant) codes.pop(code.upper()) without the default
RevokePopNoDefault(codes, code) ==
    [raised |-> Upper(code) \notin DOMAIN codes,
     codes |-> DictPop(codes, Upper(code))]

\* revoke_code line 62: codes.pop(code.upper(), None).  The default makes
\* the pop of a missing key a no-op instead of a KeyError.
RevokePop(codes, code) ==
    [raised |-> FALSE, codes |-> DictPop(codes, Upper(code))]

----------------------------------------------------------------------------
(* Call records *)

NoCall ==
    [op |-> "none", path |-> None, hours |-> None, arg |-> None,
     codes |-> EmptyDict, code |-> None, entry |-> None, readAt |-> 0,
     draws |-> 0, error |-> None, gets |-> 0, puts |-> 0]

NoPrev == [op |-> "none", outcome |-> "none", key |-> None, found |-> FALSE]

\* outcome: "returned", or the exception raised ("ClientError", "KeyError").
\* error: the error code the ClientError raised carries.
\* found: whether the normalised code was a key of the document read.
\* prev: the call the same caller finished before this one.
\* gets, puts: the get_object and put_object requests the call has issued.
NoLast ==
    [op |-> "none", outcome |-> "none", path |-> None, hours |-> None,
     arg |-> None, code |-> None, result |-> None, found |-> FALSE,
     readAt |-> 0, wroteAt |-> 0, error |-> None, gets |-> 0, puts |-> 0,
     prev |-> NoPrev]

\* The code a finished call was about: the one returned, or the normalised
\* argument.
KeyOf(l) == IF l.op = "generate" THEN l.code
            ELSE IF IsNone(l.arg) THEN None ELSE Some(Upper(Val(l.arg)))

\* The record of a finished call, from its locals.
Finished(p, c, outcome, result, stamp) ==
    [op |-> c.op, outcome |-> outcome, path |-> c.path, hours |-> c.hours,
     arg |-> c.arg, code |-> c.code, result |-> result,
     found |-> ~IsNone(c.arg) /\ Upper(Val(c.arg)) \in DOMAIN c.codes,
     readAt |-> c.readAt, wroteAt |-> stamp, error |-> c.error,
     gets |-> c.gets, puts |-> c.puts,
     prev |-> [op |-> last[p].op, outcome |-> last[p].outcome,
               key |-> KeyOf(last[p]), found |-> last[p].found]]

Return(p, c, result, stamp) ==
    /\ pc' = [pc EXCEPT ![p] = "idle"]
    /\ cur' = [cur EXCEPT ![p] = NoCall]
    /\ last' = [last EXCEPT ![p] = Finished(p, c, "returned", result, stamp)]

Raise(p, c, exception) ==
    /\ pc' = [pc EXCEPT ![p] = "idle"]
    /\ cur' = [cur EXCEPT ![p] = NoCall]
    /\ last' = [last EXCEPT ![p] = Finished(p, c, exception, None, c.readAt)]

\* A call starts with its get_object request (line 40, 51 or 61).
Started(op, path, hours, arg) ==
    [NoCall EXCEPT !.op = op, !.path = path, !.hours = hours, !.arg = arg,
                   !.codes = ReadCodes(bucket), !.readAt = nputs,
                   !.gets = 1]

----------------------------------------------------------------------------
(* Keys, prefixes and the store's paginated listing *)

StartsWith(s, p) == Len(p) <= Len(s) /\ SubSeq(s, 1, Len(p)) = p

\* The first position at or after i where the delimiter "/" stands in s,
\* 0 when there is none.
RECURSIVE FindDelimiter(_, _)
FindDelimiter(s, i) ==
    IF i > Len(s) THEN 0
    ELSE IF SubSeq(s, i, i) = "/" THEN i
    ELSE FindDelimiter(s, i + 1)

\* Every key the bucket can hold here, in the order the store lists keys
\* (by UTF-8 bytes).
KeyOrder ==
    << "_system/codes.json", "_system/docs/b.txt", "_system/docs/old/b.txt",
       "alice/", "alice/codes.json", "alice/docs/", "alice/docs/a.txt",
       "alice/docs/b.txt", "alice/docs/old/b.txt", "bob/docs/b.txt",
       "bob/docs/old/b.txt" >>

\* The entries of a listing of prefix, from position i of KeyOrder on: one
\* object per key, or with a delimiter one common prefix for all the keys
\* that share the prefix up to their next "/".
RECURSIVE ListEntries(_, _, _, _)
ListEntries(b, prefix, delimited, i) ==
    IF i > Len(KeyOrder) THEN << >>
    ELSE LET key == KeyOrder[i]
             rest == ListEntries(b, prefix, delimited, i + 1)
             cut == IF delimited THEN FindDelimiter(key, Len(prefix) + 1)
                    ELSE 0
             cp == [Prefix |-> SubSeq(key, 1, cut)]
         IN  IF key \notin DOMAIN b \/ ~StartsWith(key, prefix) THEN rest
             ELSE IF cut = 0
             THEN << [Key |-> key, Size |-> b[key].size,
                      LastModified |-> b[key].last_modified] >> \o rest
             ELSE IF rest # << >> /\ "Prefix" \in DOMAIN Head(rest)
                        /\ Head(rest) = cp
             THEN rest
             ELSE << cp >> \o rest

\* One page of a listing: a dict with CommonPrefixes and Contents, each
\* left out when it would be empty.
MakePage(entries) ==
    LET cps == SelectSeq(entries, LAMBDA e : "Prefix" \in DOMAIN e)
        objs == SelectSeq(entries, LAMBDA e : "Key" \in DOMAIN e)
        fields == (IF cps # << >> THEN {"CommonPrefixes"} ELSE {})
                     \cup (IF objs # << >> THEN {"Contents"} ELSE {})
    IN  [f \in fields |-> IF f = "CommonPrefixes" THEN cps ELSE objs]

\* The pages the paginator yields for a listing: the entries in order,
\* PageSize to a page; one empty page when there is no entry.
StorePages(b, prefix, delimited) ==
    LET es == ListEntries(b, prefix, delimited, 1)
        n == Len(es)
        last_page == (n + PageSize - 1) \div PageSize
    IN  IF n = 0 THEN << MakePage(<< >>) >>
        ELSE [k \in 1..last_page |->
                 MakePage(SubSeq(es, (k - 1) * PageSize + 1,
                                 IF k * PageSize < n THEN k * PageSize ELSE n))]

\* page.get(field, [])
PageGet(page, field) == IF field \in DOMAIN page THEN page[field] ELSE << >>

----------------------------------------------------------------------------
(* S3Client.list_folder and S3Client.list_all_objects, page by page *)

\* (mutant) the object at the prefix itself is kept
KeepsFileAlways(prefix, obj) == TRUE

\* The filter on a page's Contents: the placeholder object, whose key is the
\* prefix itself, is dropped.
KeepsFile(prefix, obj) == obj.Key # prefix

\* The record list_folder returns for an object, and list_all_objects'.
FileRecord(obj) ==
    [key |-> obj.Key, size |-> obj.Size, last_modified |-> obj.LastModified]
ObjectRecord(obj) == [key |-> obj.Key, size |-> obj.Size]

\* The folders and the files one page adds.
FoldersOf(page) ==
    LET cps == PageGet(page, "CommonPrefixes")
    IN  [i \in 1..Len(cps) |-> cps[i].Prefix]
KeptOf(prefix, page) ==
    SelectSeq(PageGet(page, "Contents"), LAMBDA obj : KeepsFile(prefix, obj))
FilesOf(prefix, page) ==
    LET kept == KeptOf(prefix, page)
    IN  [i \in 1..Len(kept) |-> FileRecord(kept[i])]
ObjectsOf(prefix, page) ==
    LET kept == KeptOf(prefix, page)
    IN  [i \in 1..Len(kept) |-> ObjectRecord(kept[i])]

\* (mutant) the page's items replace what earlier pages gave
ExtendReplaces(acc, items) == items

\* list.append of each item of a page, in order.
Extend(acc, items) == acc \o items

----------------------------------------------------------------------------
(* The interactive session: its records and its inputs *)

\* str.strip() of what the user typed.
RECURSIVE StripLeft(_)
StripLeft(s) ==
    IF Len(s) > 0 /\ SubSeq(s, 1, 1) = " "
    THEN StripLeft(SubSeq(s, 2, Len(s))) ELSE s
RECURSIVE StripRight(_)
StripRight(s) ==
    IF Len(s) > 0 /\ SubSeq(s, Len(s), Len(s)) = " "
    THEN StripRight(SubSeq(s, 1, Len(s) - 1)) ELSE s
Strip(s) == StripRight(StripLeft(s))

\* What the user types at "Enter your username".
RawUsernames == {"", "  ", " alice ", "_system"}

\* What the user's local path points to: nothing, a file, a directory with
\* the files os.walk finds in it (relative paths as their parts).
LocalPaths ==
    { [exists |-> FALSE],
      [exists |-> TRUE, is_file |-> TRUE, name |-> "codes.json", size |-> 16],
      [exists |-> TRUE, is_file |-> FALSE, name |-> "empty", files |-> << >>],
      [exists |-> TRUE, is_file |-> FALSE, name |-> "docs",
       files |-> << [relative |-> << "b.txt" >>, size |-> 5],
                    [relative |-> << "old", "b.txt" >>, size |-> 7] >>] }

\* (mutant) only the file's name is kept of its relative path
AsPosixName(parts) == parts[Len(parts)]

\* relative.as_posix(): the parts of the path joined by "/".
RECURSIVE AsPosix(_)
AsPosix(parts) ==
    IF Len(parts) = 1 THEN parts[1]
    ELSE parts[1] \o "/" \o AsPosix(Tail(parts))

\* PurePosixPath(key).relative_to(prefix_path): the key without the prefix
\* it was listed under.
RelativeTo(key, prefix) == SubSeq(key, Len(prefix) + 1, Len(key))

\* upload.py line 48 and line 123.
FileKey(user, name) == user \o "/" \o name
DirectoryKey(user, folder_name, relative) ==
    user \o "/" \o folder_name \o "/" \o AsPosix(relative)

\* (mutant) the object is stored without the file's bytes
PutFileEmpty(b, key, size) ==
    [k \in DOMAIN b \cup {key} |->
        IF k = key THEN [size |-> 0, last_modified |-> now] ELSE b[k]]

\* The bucket after client.upload_file stored a file of this size at key.
PutFile(b, key, size) ==
    [k \in DOMAIN b \cup {key} |->
        IF k = key THEN [size |-> size, last_modified |-> now] ELSE b[k]]

\* The locals of the running menu flow; out is the last message it printed,
\* attempted the keys passed to the store by the batch loop so far, ncalls0
\* the provider calls started before the one the flow makes next, nflows
\* the menu choices taken (history).
NoUi ==
    [flow |-> "none", prefix |-> "", history |-> << >>, folders |-> << >>,
     files |-> << >>, out |-> "", s3_key |-> None, folder_name |-> "",
     all_files |-> << >>, total |-> 0, queue |-> << >>, attempted |-> << >>,
     successes |-> 0, failures |-> << >>, code |-> None,
     expires_hours |-> None, ncalls0 |-> 0, nflows |-> 0, lists |-> 0]

\* The locals of a list_folder or list_all_objects call; page counts the
\* pages fetched, error is the code of the ClientError it raised.
NoListing ==
    [op |-> "none", prefix |-> "", page |-> 0, folders |-> << >>,
     files |-> << >>, status |-> "idle", error |-> None]

\* The outcome of a request to the store: it answers, or raises a
\* ClientError with an error code, or botocore raises another exception.
Answered == [kind |-> "ok"]
ClientError(code) == [kind |-> "ClientError", code |-> code]
NoCredentialsError == [kind |-> "NoCredentialsError"]
EndpointConnectionError == [kind |-> "EndpointConnectionError"]
NoOutcome == [kind |-> "none"]

\* main(): the saved configuration file, what load_config returned, what
\* validate_config returned, the config in use, the runs of the setup
\* wizard (setup: before the first connection), the answer to
\* "Reconfigure credentials?", the region of the client in use, whether
\* the bucket exists, the requests sent to the store, the outcome of the
\* latest list_buckets, head_bucket and create_bucket, what
\* verify_connection returned, the exception that left the call, and the
\* status of sys.exit.
NoBoot ==
    [pc |-> "none", file |-> [state |-> "missing"], loaded |-> None,
     valid |-> None, config |-> None, setup |-> FALSE, wizards |-> 0,
     reconfigure |-> None, region |-> "", exists |-> FALSE,
     requests |-> << >>,
     list_buckets |-> NoOutcome, head_bucket |-> NoOutcome,
     create_bucket |-> NoOutcome, verified |-> None, raised |-> None,
     exit |-> None]

\* main() before prompt_username.
InitUi ==
    /\ username = None
    /\ upc = "prompt"
    /\ ui = NoUi
    /\ listing = NoListing
    /\ boot = NoBoot

----------------------------------------------------------------------------
\* What earlier sessions may have left in the bucket: no document yet, or
\* the document after one generate_code call at hour 0, without or with an
\* expiry.
PriorCode == [i \in 1..CODE_LENGTH |-> "7"]
PriorEntries ==
    {NewEntry("bob/pics/", 0)}
    \cup {WithExpiry(NewEntry("bob/pics/", 0), 0, h) : h \in ExpiryHours}
PriorBuckets ==
    {<< >>}
    \cup {WriteCodes(<< >>, DictSet(EmptyDict, PriorCode, e)) : e \in PriorEntries}

Init ==
    /\ now = 0
    /\ bucket \in PriorBuckets
    /\ pc = [p \in Procs |-> "idle"]
    /\ cur = [p \in Procs |-> NoCall]
    /\ last = [p \in Procs |-> NoLast]
    /\ nputs = 0
    /\ ncalls = 0
    /\ InitUi

\* generate_code line 40: codes = self._read_codes()
GenerateRead(p, path, hours, ok) ==
    /\ pc[p] = "idle"
    /\ ncalls < MaxCalls
    /\ ncalls' = ncalls + 1
    /\ LET c == Started("generate", Some(path), hours, None)
           e == GetObjectError(bucket, CODES_KEY, ok)
       IN  IF ~ReadCodesReraises(e)
           THEN /\ pc' = [pc EXCEPT ![p] = "gen_draw"]
                /\ cur' = [cur EXCEPT ![p] = c]
                /\ UNCHANGED last
           ELSE Raise(p, [c EXCEPT !.codes = EmptyDict, !.error = e],
                      "ClientError")
    /\ UNCHANGED <<now, bucket, nputs>>
    /\ UNCHANGED uiVars

\* generate_code line 41: one iteration of _unique_code's loop
GenerateDraw(p) ==
    /\ pc[p] = "gen_draw"
    /\ \E code \in RandomChoices(CODE_CHARS, CODE_LENGTH) :
          IF UniqueCodeAccepts(cur[p].codes, code)
          THEN /\ pc' = [pc EXCEPT ![p] = "gen_entry"]
               /\ cur' = [cur EXCEPT ![p].code = Some(code),
                                     ![p].draws = @ + 1]
          ELSE /\ cur[p].draws < MaxDraws
               /\ cur' = [cur EXCEPT ![p].draws = @ + 1]
               /\ UNCHANGED pc
    /\ UNCHANGED <<now, bucket, last, nputs, ncalls>>
    /\ UNCHANGED uiVars

\* generate_code line 42: the entry with created_at
GenerateEntry(p) ==
    /\ pc[p] = "gen_entry"
    /\ cur' = [cur EXCEPT ![p].entry = Some(NewEntry(Val(cur[p].path), now))]
    /\ pc' = [pc EXCEPT ![p] =
                 IF IsNone(cur[p].hours) THEN "gen_write" ELSE "gen_expiry"]
    /\ UNCHANGED <<now, bucket, last, nputs, ncalls>>
    /\ UNCHANGED uiVars

\* generate_code lines 43-45: expires_at from a second reading of the clock
GenerateExpiry(p) ==
    /\ pc[p] = "gen_expiry"
    /\ cur' = [cur EXCEPT ![p].entry =
                  Some(WithExpiry(Val(cur[p].entry), now, Val(cur[p].hours)))]
    /\ pc' = [pc EXCEPT ![p] = "gen_write"]
    /\ UNCHANGED <<now, bucket, last, nputs, ncalls>>
    /\ UNCHANGED uiVars

\* (mutant) the entry is inserted into the document as it is stored now
GenerateWriteRereads(p, ok) ==
    /\ pc[p] = "gen_write"
    /\ LET codes == DictSet(ReadCodes(bucket), Val(cur[p].code), Val(cur[p].entry))
           c == [cur[p] EXCEPT !.puts = @ + 1]
       IN  IF ok
           THEN /\ bucket' = WriteCodes(bucket, codes)
                /\ nputs' = nputs + 1
                /\ Return(p, c, c.code, nputs + 1)
           ELSE /\ Raise(p, [c EXCEPT !.error = PutObjectError(ok)],
                        "ClientError")
                /\ UNCHANGED <<bucket, nputs>>
    /\ UNCHANGED <<now, ncalls>>
    /\ UNCHANGED uiVars

\* (mutant) a put_object that fails is issued once more
GenerateWriteRetries(p, ok) ==
    /\ pc[p] = "gen_write"
    /\ LET codes == DictSet(cur[p].codes, Val(cur[p].code), Val(cur[p].entry))
           c == [cur[p] EXCEPT !.puts = @ + 1]
       IN  IF ok
           THEN /\ bucket' = WriteCodes(bucket, codes)
                /\ nputs' = nputs + 1
                /\ Return(p, c, c.code, nputs + 1)
           ELSE IF c.puts < 2
           THEN /\ cur' = [cur EXCEPT ![p] = c]
                /\ UNCHANGED <<pc, last, bucket, nputs>>
           ELSE /\ Raise(p, [c EXCEPT !.error = PutObjectError(ok)],
                        "ClientError")
                /\ UNCHANGED <<bucket, nputs>>
    /\ UNCHANGED <<now, ncalls>>
    /\ UNCHANGED uiVars

\* generate_code lines 46-48: insert, write the document back, return the code
GenerateWrite(p, ok) ==
    /\ pc[p] = "gen_write"
    /\ LET codes == DictSet(cur[p].codes, Val(cur[p].code), Val(cur[p].entry))
           c == [cur[p] EXCEPT !.puts = @ + 1]
       IN  IF ok
           THEN /\ bucket' = WriteCodes(bucket, codes)
                /\ nputs' = nputs + 1
                /\ Return(p, c, c.code, nputs + 1)
           ELSE /\ Raise(p, [c EXCEPT !.error = PutObjectError(ok)],
                        "ClientError")
                /\ UNCHANGED <<bucket, nputs>>
    /\ UNCHANGED <<now, ncalls>>
    /\ UNCHANGED uiVars

\* resolve_code lines 51-54 and 58: read, look the code up, return unless
\* the entry carries expires_at
ResolveRead(p, arg, ok) ==
    /\ pc[p] = "idle"
    /\ ncalls < MaxCalls
    /\ ncalls' = ncalls + 1
    /\ LET c0 == Started("resolve", None, None, Some(arg))
           e == GetObjectError(bucket, CODES_KEY, ok)
           entry == LookupEntry(c0.codes, arg)
           c == [c0 EXCEPT !.entry = entry]
       IN  IF ReadCodesReraises(e)
           THEN Raise(p, [c0 EXCEPT !.codes = EmptyDict, !.error = e],
                      "ClientError")
           ELSE IF IsNone(entry)
           THEN Return(p, c, None, c.readAt)
           ELSE IF HasExpiry(Val(entry))
           THEN /\ pc' = [pc EXCEPT ![p] = "res_expiry"]
                /\ cur' = [cur EXCEPT ![p] = c]
                /\ UNCHANGED last
           ELSE Return(p, c, ResolveEntry(Val(entry), now), c.readAt)
    /\ UNCHANGED <<now, bucket, nputs>>
    /\ UNCHANGED uiVars

\* (mutant) an entry found expired is deleted from the stored document
ResolveExpiryPurges(p) ==
    /\ pc[p] = "res_expiry"
    /\ Return(p, cur[p], ResolveEntry(Val(cur[p].entry), now), cur[p].readAt)
    /\ bucket' = IF IsNone(ResolveEntry(Val(cur[p].entry), now))
                 THEN WriteCodes(bucket,
                         DictPop(cur[p].codes, Upper(Val(cur[p].arg))))
                 ELSE bucket
    /\ UNCHANGED <<now, nputs, ncalls>>
    /\ UNCHANGED uiVars

\* resolve_code lines 55-58: compare the clock with expires_at
ResolveExpiry(p) ==
    /\ pc[p] = "res_expiry"
    /\ Return(p, cur[p], ResolveEntry(Val(cur[p].entry), now), cur[p].readAt)
    /\ UNCHANGED <<now, bucket, nputs, ncalls>>
    /\ UNCHANGED uiVars

\* revoke_code line 61: codes = self._read_codes()
RevokeRead(p, arg, ok) ==
    /\ pc[p] = "idle"
    /\ ncalls < MaxCalls
    /\ ncalls' = ncalls + 1
    /\ LET c == Started("revoke", None, None, Some(arg))
           e == GetObjectError(bucket, CODES_KEY, ok)
       IN  IF ~ReadCodesReraises(e)
           THEN /\ pc' = [pc EXCEPT ![p] = "rev_write"]
                /\ cur' = [cur EXCEPT ![p] = c]
                /\ UNCHANGED last
           ELSE Raise(p, [c EXCEPT !.codes = EmptyDict, !.error = e],
                      "ClientError")
    /\ UNCHANGED <<now, bucket, nputs>>
    /\ UNCHANGED uiVars

\* (mutant) a put_object that fails is passed over in silence
RevokeWriteSwallows(p, ok) ==
    /\ pc[p] = "rev_write"
    /\ LET popped == RevokePop(cur[p].codes, Val(cur[p].arg))
           c == [cur[p] EXCEPT !.puts = @ + 1]
       IN  IF ok
           THEN /\ bucket' = WriteCodes(bucket, popped.codes)
                /\ nputs' = nputs + 1
                /\ Return(p, c, None, nputs + 1)
           ELSE /\ Return(p, c, None, c.readAt)
                /\ UNCHANGED <<bucket, nputs>>
    /\ UNCHANGED <<now, ncalls>>
    /\ UNCHANGED uiVars

\* revoke_code lines 62-63: pop the code, write the document back
RevokeWrite(p, ok) ==
    /\ pc[p] = "rev_write"
    /\ LET popped == RevokePop(cur[p].codes, Val(cur[p].arg))
           c == [cur[p] EXCEPT !.puts = @ + 1]
       IN  IF popped.raised
           THEN /\ Raise(p, cur[p], "KeyError")
                /\ UNCHANGED <<bucket, nputs>>
           ELSE IF ok
           THEN /\ bucket' = WriteCodes(bucket, popped.codes)
                /\ nputs' = nputs + 1
                /\ Return(p, c, None, nputs + 1)
           ELSE /\ Raise(p, [c EXCEPT !.error = PutObjectError(ok)],
                        "ClientError")
                /\ UNCHANGED <<bucket, nputs>>
    /\ UNCHANGED <<now, ncalls>>
    /\ UNCHANGED uiVars

\* Time passes.
Tick ==
    /\ now < MaxClock
    /\ now' = now + 1
    /\ UNCHANGED <<bucket, pc, cur, last, nputs, ncalls>>
    /\ UNCHANGED uiVars

HoursArgs == {None} \cup {Some(h) : h \in ExpiryHours}

\* One caller at a time: the usage the program is written for.  The store
\* may fail any request.
Next ==
    \/ \E path \in Paths, hours \in HoursArgs, ok \in BOOLEAN :
          GenerateRead(Caller, path, hours, ok)
    \/ GenerateDraw(Caller)
    \/ GenerateEntry(Caller)
    \/ GenerateExpiry(Caller)
    \/ \E ok \in BOOLEAN : GenerateWrite(Caller, ok)
    \/ \E arg \in CodeArgs, ok \in BOOLEAN : ResolveRead(Caller, arg, ok)
    \/ ResolveExpiry(Caller)
    \/ \E arg \in CodeArgs, ok \in BOOLEAN : RevokeRead(Caller, arg, ok)
    \/ \E ok \in BOOLEAN : RevokeWrite(Caller, ok)
    \/ Tick

Spec == Init /\ [][Next]_vars

\* The steps after the first request of a call: the interpreter runs on, and
\* each store request returns or raises.
Continue(p) ==
    \/ GenerateEntry(p)
    \/ GenerateExpiry(p)
    \/ \E ok \in BOOLEAN : GenerateWrite(p, ok)
    \/ ResolveExpiry(p)
    \/ \E ok \in BOOLEAN : RevokeWrite(p, ok)

\* The iteration of _unique_code's loop whose draw is not a key.
AcceptDraw(p) == GenerateDraw(p) /\ pc'[p] = "gen_entry"

\* The one caller again, on one path and with codes as they are drawn, the
\* clock standing still.
NextLive ==
    \/ \E hours \in HoursArgs, ok \in BOOLEAN :
          GenerateRead(Caller, "alice/docs/", hours, ok)
    \/ GenerateDraw(Caller)
    \/ GenerateEntry(Caller)
    \/ GenerateExpiry(Caller)
    \/ \E ok \in BOOLEAN : GenerateWrite(Caller, ok)
    \/ \E arg \in RaceArgs, ok \in BOOLEAN : ResolveRead(Caller, arg, ok)
    \/ ResolveExpiry(Caller)
    \/ \E arg \in RaceArgs, ok \in BOOLEAN : RevokeRead(Caller, arg, ok)
    \/ \E ok \in BOOLEAN : RevokeWrite(Caller, ok)

\* A running call is always carried on and random draws are fair: a code
\* that can be drawn infinitely often is drawn.  Colliding draws beyond
\* MaxDraws leave the state as it is (stuttering).
SpecLive ==
    Init /\ [][NextLive]_vars /\ WF_vars(Continue(Caller))
         /\ SF_vars(AcceptDraw(Caller))

\* Several callers whose calls interleave at the store requests; the store
\* answers every request.
NextRace ==
    \/ \E p \in Procs, path \in Paths, hours \in HoursArgs :
          GenerateRead(p, path, hours, TRUE)
    \/ \E p \in Procs : GenerateDraw(p)
    \/ \E p \in Procs : GenerateEntry(p)
    \/ \E p \in Procs : GenerateExpiry(p)
    \/ \E p \in Procs : GenerateWrite(p, TRUE)
    \/ \E p \in Procs, arg \in RaceArgs : ResolveRead(p, arg, TRUE)
    \/ \E p \in Procs : ResolveExpiry(p)
    \/ \E p \in Procs, arg \in RaceArgs : RevokeRead(p, arg, TRUE)
    \/ \E p \in Procs : RevokeWrite(p, TRUE)

SpecRace == Init /\ [][NextRace]_vars

----------------------------------------------------------------------------
(* The session: username prompt, menu, upload, browse and download flows *)

\* prompt_username: one Prompt.ask; an empty answer is asked again.
PromptUsername(raw) ==
    /\ upc = "prompt"
    /\ IF Strip(raw) # ""
       THEN /\ username' = Some(Strip(raw))
            /\ upc' = "menu"
            /\ UNCHANGED ui
       ELSE /\ ui' = [ui EXCEPT !.out = "Username cannot be empty."]
            /\ UNCHANGED <<username, upc>>
    /\ UNCHANGED <<bucket, listing>>
    /\ UNCHANGED <<shareVars, boot>>

\* show_main_menu, choice "5".
MenuExit ==
    /\ upc = "menu"
    /\ upc' = "exited"
    /\ ui' = [ui EXCEPT !.out = "Goodbye!"]
    /\ UNCHANGED <<bucket, username, listing>>
    /\ UNCHANGED <<shareVars, boot>>

\* The locals of a flow the menu starts.
NewFlow(name) == [NoUi EXCEPT !.flow = name, !.nflows = ui.nflows + 1]

\* upload_flow, choice "file": _upload_file_flow with the local path given.
UploadFileFlow(local, ok) ==
    /\ upc = "menu"
    /\ ui.nflows < MaxFlows
    /\ LET f == NewFlow("upload_file")
           s3_key == FileKey(Val(username), local.name)
       IN  IF ~local.exists
           THEN /\ ui' = [f EXCEPT !.out = "File not found:"]
                /\ UNCHANGED bucket
           ELSE IF ~local.is_file
           THEN /\ ui' = [f EXCEPT !.out =
                             "That path points to a directory, not a file."]
                /\ UNCHANGED bucket
           ELSE IF ok
           THEN /\ bucket' = PutFile(bucket, s3_key, local.size)
                /\ ui' = [f EXCEPT !.s3_key = Some(s3_key),
                                   !.out = "Upload complete."]
           ELSE /\ ui' = [f EXCEPT !.s3_key = Some(s3_key),
                                   !.out = "Upload failed:"]
                /\ UNCHANGED bucket
    /\ UNCHANGED <<username, upc, listing>>
    /\ UNCHANGED <<shareVars, boot>>

\* upload_flow, choice "directory": _upload_directory_flow up to its loop.
UploadDirectoryStart(local) ==
    /\ upc = "menu"
    /\ ui.nflows < MaxFlows
    /\ LET f == NewFlow("upload_directory")
       IN  IF ~local.exists
           THEN /\ ui' = [f EXCEPT !.out = "Directory not found:"]
                /\ UNCHANGED upc
           ELSE IF local.is_file
           THEN /\ ui' = [f EXCEPT !.out =
                             "That path points to a file, not a directory."]
                /\ UNCHANGED upc
           ELSE IF local.files = << >>
           THEN /\ ui' = [f EXCEPT !.out = "No files found in"]
                /\ UNCHANGED upc
           ELSE /\ ui' = [f EXCEPT !.folder_name = local.name,
                                   !.all_files = local.files,
                                   !.total = Len(local.files),
                                   !.queue = local.files, !.out = "Found"]
                /\ upc' = "up_file"
    /\ UNCHANGED <<bucket, username, listing>>
    /\ UNCHANGED <<shareVars, boot>>

\* (mutant) every transfer is counted as a success
CountSuccessAlways(successes, ok) == successes + 1

\* successes += 1 after a transfer that did not raise.
CountSuccess(successes, ok) == IF ok THEN successes + 1 ELSE successes

\* except Exception: failures.append((name, str(e))).
RecordFailure(failures, ok, name) ==
    IF ok THEN failures ELSE Append(failures, name)

\* An exception nothing catches leaves the flow, show_main_menu and main.
Uncaught ==
    /\ ui' = [ui EXCEPT !.out = "Traceback"]
    /\ listing' = NoListing
    /\ upc' = "crashed"

\* _upload_directory_flow: one iteration of the loop over all_files, and
\* _print_summary after the last.  file_path.stat() is called before the
\* try: when it raises (stat_ok false: a broken symlink, a file removed
\* since os.walk) nothing catches the exception.
UploadDirectoryFile(stat_ok, ok) ==
    /\ upc = "up_file"
    /\ LET file == Head(ui.queue)
           s3_key == DirectoryKey(Val(username), ui.folder_name, file.relative)
           u == [ui EXCEPT !.s3_key = Some(s3_key), !.queue = Tail(@),
                           !.attempted = Append(@, s3_key),
                           !.successes = CountSuccess(@, ok),
                           !.failures = RecordFailure(@, ok,
                                                      AsPosix(file.relative))]
           done == Tail(ui.queue) = << >>
       IN  IF ~stat_ok
           THEN /\ Uncaught
                /\ UNCHANGED bucket
           ELSE /\ bucket' = IF ok THEN PutFile(bucket, s3_key, file.size)
                             ELSE bucket
                /\ ui' = IF ~done THEN u
                         ELSE [u EXCEPT !.out =
                                  IF u.failures = << >>
                                  THEN "All file(s) uploaded successfully"
                                  ELSE "file(s) failed:"]
                /\ upc' = IF done THEN "menu" ELSE "up_file"
                /\ UNCHANGED listing
    /\ UNCHANGED username
    /\ UNCHANGED <<shareVars, boot>>

\* client.list_folder(prefix) or client.list_all_objects(prefix) is called.
StartListing(op, prefix) ==
    [NoListing EXCEPT !.op = op, !.prefix = prefix, !.status = "running"]

\* (mutant) list_all_objects lists with the delimiter too
UsesDelimiterAlways(op) == TRUE

\* list_folder passes Delimiter="/" to the paginator, list_all_objects none.
UsesDelimiter(op) == op = "list_folder"

\* (mutant) the entries of the pages already read are returned on an error
PartialOnErrorKept(acc) == acc

\* What the caller receives of the entries gathered when a page request
\* raises: the exception leaves the call, nothing is returned.
PartialOnError(acc) == << >>

\* One iteration of the loop over the paginator's pages: the next page is
\* requested; its common prefixes and its kept objects are appended, or the
\* ClientError of the request leaves the call with nothing returned.
ListPage(ok) ==
    /\ listing.status = "running"
    /\ LET delimited == UsesDelimiter(listing.op)
           pages == StorePages(bucket, listing.prefix, delimited)
           page == pages[listing.page + 1]
       IN  listing' =
              IF ~ok
              THEN [listing EXCEPT !.status = "raised",
                                   !.error = Some("AccessDenied"),
                                   !.folders = PartialOnError(@),
                                   !.files = PartialOnError(@)]
              ELSE [listing EXCEPT
                       !.page = @ + 1,
                       !.folders = IF delimited
                                   THEN Extend(@, FoldersOf(page)) ELSE @,
                       !.files = Extend(@, IF delimited
                                           THEN FilesOf(listing.prefix, page)
                                           ELSE ObjectsOf(listing.prefix, page)),
                       !.status = IF listing.page + 1 = Len(pages)
                                  THEN "returned" ELSE "running"]
    /\ UNCHANGED <<bucket, username, upc, ui>>
    /\ UNCHANGED <<shareVars, boot>>

RootPrefix == Val(username) \o "/"

\* (mutant) the loop lists the bucket from its top
ListAgainUnscoped(u, prefix, listpc) ==
    /\ ui' = [u EXCEPT !.prefix = prefix, !.lists = @ + 1]
    /\ listing' = StartListing("list_folder", "")
    /\ upc' = listpc

\* The flow lists prefix (again): the head of the while loop.  lists counts
\* the list_folder calls of the flow.
ListAgain(u, prefix, listpc) ==
    /\ ui' = [u EXCEPT !.prefix = prefix, !.lists = @ + 1]
    /\ listing' = StartListing("list_folder", prefix)
    /\ upc' = listpc

\* The flow returns to show_main_menu.
BackToMenu(u) ==
    /\ ui' = u
    /\ listing' = NoListing
    /\ upc' = "menu"

\* (mutant) a failed listing is shown as an empty folder
ListingFailedAsEmpty(failed) == FALSE

\* browse_flow lines 21-25: except ClientError around list_folder.
ListingFailed(failed) == failed

\* browse_flow lines 21-45 (download_flow lines 29-48): what the loop does
\* with the outcome of list_folder.
AfterListFolder(listpc, selectpc) ==
    /\ upc = listpc
    /\ listing.status \in {"returned", "raised"}
    /\ IF ListingFailed(listing.status = "raised")
       THEN BackToMenu([ui EXCEPT !.out = "Failed to list files:"])
       ELSE IF listing.folders = << >> /\ listing.files = << >>
       THEN LET u == [ui EXCEPT !.out =
                         IF ui.prefix = RootPrefix
                         THEN "Nothing uploaded yet."
                         ELSE "This folder is empty."]
            IN  IF u.history # << >>
                THEN ListAgain([u EXCEPT !.history =
                                   SubSeq(@, 1, Len(@) - 1)],
                               u.history[Len(u.history)], listpc)
                ELSE BackToMenu(u)
       ELSE /\ ui' = [ui EXCEPT !.folders = listing.folders,
                                !.files = listing.files, !.out = "listing"]
            /\ listing' = NoListing
            /\ upc' = selectpc
    /\ UNCHANGED <<bucket, username>>
    /\ UNCHANGED <<shareVars, boot>>

\* show_main_menu, choice "3": browse_flow up to its first list_folder.
BrowseStart ==
    /\ upc = "menu"
    /\ ui.nflows < MaxFlows
    /\ ListAgain(NewFlow("browse"), RootPrefix, "br_list")
    /\ UNCHANGED <<bucket, username>>
    /\ UNCHANGED <<shareVars, boot>>

BrowseListed == AfterListFolder("br_list", "br_select")

\* The answers Prompt.ask accepts at "Select".
Choices(u) ==
    {[kind |-> "item", idx |-> i] :
        i \in 1..(Len(u.folders) + Len(u.files))}
    \cup (IF u.history # << >> THEN {[kind |-> "b"]} ELSE {})
    \cup {[kind |-> "q"]}

\* (mutant) entering a folder does not record where it was entered from
BrowseSelectForgets(choice) ==
    /\ upc = "br_select"
    /\ choice \in Choices(ui)
    /\ choice.kind # "q" => ui.lists < MaxLists
    /\ IF choice.kind = "q"
       THEN BackToMenu(ui)
       ELSE IF choice.kind = "b"
       THEN ListAgain([ui EXCEPT !.history = SubSeq(@, 1, Len(@) - 1)],
                      ui.history[Len(ui.history)], "br_list")
       ELSE IF choice.idx <= Len(ui.folders)
       THEN ListAgain(ui, ui.folders[choice.idx], "br_list")
       ELSE ListAgain([ui EXCEPT !.out =
                          "File download available in Sprint 5."],
                      ui.prefix, "br_list")
    /\ UNCHANGED <<bucket, username>>
    /\ UNCHANGED <<shareVars, boot>>

\* browse_flow lines 52-66: the choice made at the prompt.
BrowseSelect(choice) ==
    /\ upc = "br_select"
    /\ choice \in Choices(ui)
    /\ choice.kind # "q" => ui.lists < MaxLists
    /\ IF choice.kind = "q"
       THEN BackToMenu(ui)
       ELSE IF choice.kind = "b"
       THEN ListAgain([ui EXCEPT !.history = SubSeq(@, 1, Len(@) - 1)],
                      ui.history[Len(ui.history)], "br_list")
       ELSE IF choice.idx <= Len(ui.folders)
       THEN ListAgain([ui EXCEPT !.history = Append(@, ui.prefix)],
                      ui.folders[choice.idx], "br_list")
       ELSE ListAgain([ui EXCEPT !.out =
                          "File download available in Sprint 5."],
                      ui.prefix, "br_list")
    /\ UNCHANGED <<bucket, username>>
    /\ UNCHANGED <<shareVars, boot>>

\* show_main_menu, choice "2": download_flow up to its first list_folder.
DownloadStart ==
    /\ upc = "menu"
    /\ ui.nflows < MaxFlows
    /\ ListAgain(NewFlow("download"), RootPrefix, "dl_list")
    /\ UNCHANGED <<bucket, username>>
    /\ UNCHANGED <<shareVars, boot>>

DownloadListed == AfterListFolder("dl_list", "dl_select")

\* download_flow lines 58-84: the choice made at the prompt; for a folder the
\* second prompt's answer is action ("navigate" or "download"); for a file,
\* download_single_file with the outcome ok of client.download_file.
DownloadSelect(choice, action, ok) ==
    /\ upc = "dl_select"
    /\ choice \in Choices(ui)
    /\ (choice.kind = "b" \/ (choice.kind = "item" /\ action = "navigate"
                                /\ choice.idx <= Len(ui.folders)))
          => ui.lists < MaxLists
    /\ IF choice.kind = "q"
       THEN BackToMenu(ui)
       ELSE IF choice.kind = "b"
       THEN ListAgain([ui EXCEPT !.history = SubSeq(@, 1, Len(@) - 1)],
                      ui.history[Len(ui.history)], "dl_list")
       ELSE IF choice.idx <= Len(ui.folders)
       THEN IF action = "download"
            THEN /\ ui' = [ui EXCEPT !.prefix = ui.folders[choice.idx]]
                 /\ listing' = StartListing("list_all_objects",
                                            ui.folders[choice.idx])
                 /\ upc' = "df_list"
            ELSE ListAgain([ui EXCEPT !.history = Append(@, ui.prefix)],
                           ui.folders[choice.idx], "dl_list")
       ELSE BackToMenu([ui EXCEPT !.out =
                           IF ok THEN "Saved to" ELSE "Download failed:"])
    /\ UNCHANGED <<bucket, username>>
    /\ UNCHANGED <<shareVars, boot>>

\* _download_folder lines 122-125: list_all_objects is not guarded, its
\* ClientError leaves download_flow, show_main_menu and main.
DownloadFolderListed ==
    /\ upc = "df_list"
    /\ listing.status \in {"returned", "raised"}
    /\ IF listing.status = "raised"
       THEN Uncaught
       ELSE IF listing.files = << >>
       THEN BackToMenu([ui EXCEPT !.out = "No files in this folder."])
       ELSE /\ ui' = [ui EXCEPT !.all_files = listing.files,
                                !.total = Len(listing.files),
                                !.queue = listing.files, !.out = "files,"]
            /\ listing' = NoListing
            /\ upc' = "df_file"
    /\ UNCHANGED <<bucket, username>>
    /\ UNCHANGED <<shareVars, boot>>

\* _download_folder lines 151-188: one iteration of the loop over
\* all_objects, and the summary after the last.
DownloadFolderFile(ok) ==
    /\ upc = "df_file"
    /\ LET obj == Head(ui.queue)
           u == [ui EXCEPT !.queue = Tail(@),
                           !.attempted = Append(@, obj.key),
                           !.successes = CountSuccess(@, ok),
                           !.failures = RecordFailure(@, ok,
                                           RelativeTo(obj.key, ui.prefix))]
           done == Tail(ui.queue) = << >>
       IN  /\ ui' = IF ~done THEN u
                    ELSE [u EXCEPT !.out =
                             IF u.failures = << >>
                             THEN "file(s) downloaded to"
                             ELSE "file(s) failed:"]
           /\ upc' = IF done THEN "menu" ELSE "df_file"
    /\ UNCHANGED <<bucket, username, listing>>
    /\ UNCHANGED <<shareVars, boot>>

----------------------------------------------------------------------------
(* The share menu: generate, redeem, revoke *)

\* .strip() of a code typed at the prompt (a sequence of characters).
RECURSIVE StripCodeLeft(_)
StripCodeLeft(s) ==
    IF s # << >> /\ Head(s) = " " THEN StripCodeLeft(Tail(s)) ELSE s
RECURSIVE StripCodeRight(_)
StripCodeRight(s) ==
    IF s # << >> /\ s[Len(s)] = " "
    THEN StripCodeRight(SubSeq(s, 1, Len(s) - 1)) ELSE s
StripCode(s) == StripCodeRight(StripCodeLeft(s))

\* Prompt.ask(...).strip().upper() of _redeem_share_code and
\* _revoke_share_code.
TypedCode(raw) == Upper(StripCode(raw))

\* What is typed at "Enter share code" / "Enter code to revoke".
TypedCodes == CodeArgs \cup {<< " " >> \o [i \in 1..CODE_LENGTH |-> "7"] \o << " " >>}

\* What is typed at "Expire after how many hours?", and int(raw) of it
\* (None: ValueError).
ExpiryAnswers == {"", " 1 ", "0", "x"}
IntOf(raw) ==
    IF raw = "1" THEN Some(1) ELSE IF raw = "0" THEN Some(0) ELSE None

\* _prompt_expiry: None unless the answer is a positive integer.
PromptExpiry(answer) ==
    LET raw == Strip(answer)
    IN  IF raw = "" THEN None
        ELSE IF IsNone(IntOf(raw)) THEN None
        ELSE IF Val(IntOf(raw)) <= 0 THEN None
        ELSE IntOf(raw)

\* The provider call the flow made has returned or raised.
CallDone == ncalls = ui.ncalls0 + 1 /\ pc[Caller] = "idle"

\* share_flow, action "generate": _generate_share_code up to list_folder.
ShareGenerateStart ==
    /\ upc = "menu"
    /\ ui.nflows < MaxFlows
    /\ ncalls + 1 <= MaxCalls
    /\ ListAgain(NewFlow("share_generate"), RootPrefix, "sg_list")
    /\ UNCHANGED <<bucket, username>>
    /\ UNCHANGED <<shareVars, boot>>

\* _generate_share_code lines 38-49: the outcome of list_folder.
ShareGenerateListed ==
    /\ upc = "sg_list"
    /\ listing.status \in {"returned", "raised"}
    /\ IF listing.status = "raised"
       THEN BackToMenu([ui EXCEPT !.out = "Error listing folders:"])
       ELSE IF listing.folders = << >>
       THEN BackToMenu([ui EXCEPT !.out = "No folders found to share."])
       ELSE /\ ui' = [ui EXCEPT !.folders = listing.folders,
                                !.out = "Select a folder to share"]
            /\ listing' = NoListing
            /\ upc' = "sg_select"
    /\ UNCHANGED <<bucket, username>>
    /\ UNCHANGED <<shareVars, boot>>

\* _generate_share_code lines 69-73: the folder chosen and _prompt_expiry.
ShareGenerateSelect(i, answer) ==
    /\ upc = "sg_select"
    /\ i \in 1..Len(ui.folders)
    /\ ui' = [ui EXCEPT !.prefix = ui.folders[i],
                        !.expires_hours = PromptExpiry(answer),
                        !.ncalls0 = ncalls]
    /\ upc' = "sg_call"
    /\ UNCHANGED <<bucket, username, listing>>
    /\ UNCHANGED <<shareVars, boot>>

\* _generate_share_code line 76: code_provider.generate_code(...) starts.
ShareGenerateCall(ok) ==
    /\ upc = "sg_call"
    /\ ncalls = ui.ncalls0
    /\ GenerateRead(Caller, ui.prefix, ui.expires_hours, ok)

\* _generate_share_code lines 75-91: the code is shown, or the exception.
ShareGenerateDone ==
    /\ upc = "sg_call"
    /\ CallDone
    /\ IF last[Caller].outcome = "returned"
       THEN BackToMenu([ui EXCEPT !.code = last[Caller].result,
                                  !.out = "Share Code"])
       ELSE BackToMenu([ui EXCEPT !.out = "Failed to generate code:"])
    /\ UNCHANGED <<bucket, username>>
    /\ UNCHANGED <<shareVars, boot>>

\* share_flow, action "redeem": _redeem_share_code up to resolve_code.
ShareRedeemStart(raw) ==
    /\ upc = "menu"
    /\ ui.nflows < MaxFlows
    /\ ncalls + 1 <= MaxCalls
    /\ ui' = [NewFlow("share_redeem") EXCEPT !.code = Some(TypedCode(raw)),
                                              !.ncalls0 = ncalls]
    /\ upc' = "rd_resolve"
    /\ UNCHANGED <<bucket, username, listing>>
    /\ UNCHANGED <<shareVars, boot>>

\* code_provider.resolve_code(code) starts (share.py line 97 or 118).
ShareResolveCall(ok) ==
    /\ upc \in {"rd_resolve", "rv_resolve"}
    /\ ncalls = ui.ncalls0
    /\ ResolveRead(Caller, Val(ui.code), ok)

\* _redeem_share_code line 102: "if path is None: ... return".
RedeemGranted(path) == ~IsNone(path)

\* (mutant) the folder downloaded is the redeeming user's own root
DownloadTargetOwn(path, user) == user \o "/"

\* _redeem_share_code line 111: _download_folder(client, path).
DownloadTarget(path, user) == path

\* _redeem_share_code lines 96-111: what follows resolve_code; for a path,
\* _download_folder(client, path) up to its list_all_objects.
ShareRedeemResolved ==
    /\ upc = "rd_resolve"
    /\ CallDone
    /\ IF last[Caller].outcome # "returned"
       THEN BackToMenu([ui EXCEPT !.out = "Error resolving code:"])
       ELSE IF ~RedeemGranted(last[Caller].result)
       THEN BackToMenu([ui EXCEPT !.out = "Invalid or expired share code."])
       ELSE LET prefix == DownloadTarget(Val(last[Caller].result),
                                        Val(username))
            IN  /\ ui' = [ui EXCEPT !.prefix = prefix, !.out = "Code valid!"]
                /\ listing' = StartListing("list_all_objects", prefix)
                /\ upc' = "df_list"
    /\ UNCHANGED <<bucket, username>>
    /\ UNCHANGED <<shareVars, boot>>

\* share_flow, action "revoke": _revoke_share_code up to resolve_code.
ShareRevokeStart(raw) ==
    /\ upc = "menu"
    /\ ui.nflows < MaxFlows
    /\ ncalls + 2 <= MaxCalls
    /\ ui' = [NewFlow("share_revoke") EXCEPT !.code = Some(TypedCode(raw)),
                                              !.ncalls0 = ncalls]
    /\ upc' = "rv_resolve"
    /\ UNCHANGED <<bucket, username, listing>>
    /\ UNCHANGED <<shareVars, boot>>

\* (mutant) revoke_code is called whatever resolve_code returned
RevokeGrantedAlways(path) == TRUE

\* _revoke_share_code line 123: "if path is None: ... return".
RevokeGranted(path) == ~IsNone(path)

\* _revoke_share_code lines 117-127: what follows resolve_code.
ShareRevokeResolved ==
    /\ upc = "rv_resolve"
    /\ CallDone
    /\ IF last[Caller].outcome # "returned"
       THEN BackToMenu([ui EXCEPT !.out = "Error:"])
       ELSE IF ~RevokeGranted(last[Caller].result)
       THEN BackToMenu([ui EXCEPT !.out =
                           "Code not found or already expired."])
       ELSE /\ ui' = [ui EXCEPT !.ncalls0 = ncalls]
            /\ upc' = "rv_revoke"
            /\ UNCHANGED listing
    /\ UNCHANGED <<bucket, username>>
    /\ UNCHANGED <<shareVars, boot>>

\* _revoke_share_code line 129: code_provider.revoke_code(code) starts.
ShareRevokeCall(ok) ==
    /\ upc = "rv_revoke"
    /\ ncalls = ui.ncalls0
    /\ RevokeRead(Caller, Val(ui.code), ok)

\* _revoke_share_code lines 128-137: the confirmation, or the exception.
ShareRevokeDone ==
    /\ upc = "rv_revoke"
    /\ CallDone
    /\ IF last[Caller].outcome = "returned"
       THEN BackToMenu([ui EXCEPT !.out = "revoked."])
       ELSE BackToMenu([ui EXCEPT !.out = "Failed to revoke code:"])
    /\ UNCHANGED <<bucket, username>>
    /\ UNCHANGED <<shareVars, boot>>

----------------------------------------------------------------------------
(* Startup: verify_connection and ensure_bucket_exists *)

Regions == {"us-east-1", "us-west-2"}
BUCKET_NAME == "test-bucket"

\* JSON values as json.load returns them, by their Python type.
JStr(s) == [type |-> "str", s |-> s]
JNull == [type |-> "NoneType"]
JList == [type |-> "list"]
JDict(d) == [type |-> "dict", d |-> d]

\* str(value) for the values modelled: None gives "None", the empty list
\* "[]".
PyStr(value) ==
    IF value.type = "str" THEN value.s
    ELSE IF value.type = "NoneType" THEN "None"
    ELSE IF value.type = "list" THEN "[]"
    ELSE "{}"

REQUIRED_KEYS == {"aws_access_key", "aws_secret_key", "aws_region", "bucket_name"}

\* config.get(key, "")
ConfigGet(d, key) == IF key \in DOMAIN d THEN d[key] ELSE JStr("")

\* validate_config lines 24-28.
ValidateConfig(config) ==
    IF config.type # "dict" THEN FALSE
    ELSE \A key \in REQUIRED_KEYS :
            Strip(PyStr(ConfigGet(config.d, key))) # ""

\* A complete configuration for a region, and what the wizard returns.
CompleteConfig(region) ==
    JDict([key \in REQUIRED_KEYS |->
              JStr(IF key = "aws_region" THEN region
                   ELSE IF key = "bucket_name" THEN BUCKET_NAME
                   ELSE "AKIATEST")])

\* The saved configurations modelled: complete ones; a key missing; a value
\* empty, blank, null or an empty list (the region stays a string or is
\* missing); and JSON documents that are no object.
ConfigVariants(region) ==
    {CompleteConfig(region)}
    \cup {JDict([key \in REQUIRED_KEYS \ {gone} |->
                   CompleteConfig(region).d[key]]) : gone \in REQUIRED_KEYS}
    \cup {JDict([CompleteConfig(region).d EXCEPT ![key] = value]) :
             key \in REQUIRED_KEYS \ {"aws_region"},
             value \in {JStr(""), JStr("  "), JNull, JList}}
    \cup {JDict([CompleteConfig(region).d EXCEPT !["aws_region"] = JStr(" ")])}
SavedJson ==
    UNION {ConfigVariants(region) : region \in Regions}
    \cup {JList, JStr("not a dict"), JNull}

\* ~/.pytime/config.json: missing, not JSON, or a JSON document.
ConfigFiles ==
    {[state |-> "missing"], [state |-> "corrupt"]}
    \cup {[state |-> "json", value |-> value] : value \in SavedJson}

\* load_config lines 14-21: None when the file is missing or is not JSON,
\* else what json.load returns (None for the document null).
LoadConfig(file) ==
    IF file.state # "json" THEN None
    ELSE IF file.value = JNull THEN None
    ELSE Some(file.value)

\* (mutant) the wizard runs only when no configuration was loaded
SetupNeededWhenMissing(config) == IsNone(config)

\* main lines 27 and 34: config is None, or not validate_config(config).
SetupNeeded(config) == IsNone(config) \/ ~ValidateConfig(Val(config))

\* main lines 26-40: load_config, validate_config, and for a missing or
\* rejected configuration run_setup_wizard and save_config.
LoadAndValidate ==
    /\ boot.pc = "load"
    /\ LET config == LoadConfig(boot.file)
       IN  boot' = [boot EXCEPT
                       !.loaded = config,
                       !.valid = IF IsNone(config) THEN None
                                 ELSE Some(ValidateConfig(Val(config))),
                       !.config = config,
                       !.pc = IF SetupNeeded(config) THEN "wizard"
                              ELSE "prompt_username"]
    /\ UNCHANGED <<bucket, username, upc, ui, listing>>
    /\ UNCHANGED shareVars

\* main lines 31-32 and 38-39: run_setup_wizard and save_config.
RunSetupWizard(region) ==
    /\ boot.pc = "wizard"
    /\ boot' = [boot EXCEPT
                    !.config = Some(CompleteConfig(region)),
                    !.file = [state |-> "json", value |-> CompleteConfig(region)],
                    !.setup = TRUE,
                    !.wizards = @ + 1,
                    !.pc = "prompt_username"]
    /\ UNCHANGED <<bucket, username, upc, ui, listing>>
    /\ UNCHANGED shareVars

\* main lines 43-48: prompt_username (one answer), then S3Client(config).
MainPromptUsername(raw) ==
    /\ boot.pc = "prompt_username"
    /\ IF Strip(raw) # ""
       THEN /\ username' = Some(Strip(raw))
            /\ upc' = "connecting"
            /\ boot' = [boot EXCEPT
                            !.pc = "verify",
                            !.region = Val(boot.config).d["aws_region"].s]
            /\ UNCHANGED ui
       ELSE /\ ui' = [ui EXCEPT !.out = "Username cannot be empty."]
            /\ UNCHANGED <<username, upc, boot>>
    /\ UNCHANGED <<bucket, listing>>
    /\ UNCHANGED shareVars

\* What list_buckets, head_bucket and create_bucket may end with.
ListBucketsOutcomes ==
    {Answered, NoCredentialsError, EndpointConnectionError}
    \cup {ClientError(c) : c \in {"AccessDenied", "403", "InvalidAccessKeyId",
                                  "SignatureDoesNotMatch"}}
HeadBucketOutcomes ==
    {Answered} \cup {ClientError(c) : c \in {"404", "NoSuchBucket", "403", "400"}}
CreateBucketOutcomes ==
    {Answered} \cup {ClientError(c) : c \in {"AccessDenied", "BucketAlreadyExists"}}

\* (mutant) only an answered list_buckets counts as a connection
VerifyResultAnswered(outcome) ==
    IF outcome.kind \in {"ok", "ClientError", "NoCredentialsError"}
    THEN Some(outcome.kind = "ok") ELSE None

\* verify_connection lines 22-32: what it returns, None when the exception
\* is none of those it catches.
VerifyResult(outcome) ==
    IF outcome.kind = "ok" THEN Some(TRUE)
    ELSE IF outcome.kind = "ClientError"
    THEN Some(outcome.code \in {"AccessDenied", "403"})
    ELSE IF outcome.kind = "NoCredentialsError" THEN Some(FALSE)
    ELSE None

\* (mutant) every error of head_bucket is taken for a missing bucket
BucketMissingAny(error_code) == TRUE

\* ensure_bucket_exists line 39: if error_code in ("404", "NoSuchBucket").
BucketMissing(error_code) == error_code \in {"404", "NoSuchBucket"}

\* ensure_bucket_exists lines 44-50: the arguments of create_bucket.
CreateBucketRequest(region) ==
    IF region = "us-east-1"
    THEN [op |-> "create_bucket", Bucket |-> BUCKET_NAME]
    ELSE [op |-> "create_bucket", Bucket |-> BUCKET_NAME,
          CreateBucketConfiguration |-> [LocationConstraint |-> region]]

\* main lines 50 and 59: client.verify_connection().
VerifyConnection(outcome) ==
    /\ boot.pc \in {"verify", "verify_again"}
    /\ LET b == [boot EXCEPT !.requests = Append(@, [op |-> "list_buckets"]),
                             !.list_buckets = outcome,
                             !.verified = VerifyResult(outcome)]
       IN  boot' =
              IF IsNone(b.verified)
              THEN [b EXCEPT !.pc = "crashed", !.raised = Some(outcome.kind)]
              ELSE IF Val(b.verified) THEN [b EXCEPT !.pc = "ensure"]
              ELSE IF boot.pc = "verify" THEN [b EXCEPT !.pc = "reconfigure"]
              ELSE [b EXCEPT !.pc = "exited", !.exit = Some(1)]
    /\ UNCHANGED <<bucket, username, upc, ui, listing>>
    /\ UNCHANGED shareVars

\* main lines 54-63: "Reconfigure credentials?"; for "y" the wizard's
\* config makes a new client.
Reconfigure(answer, region) ==
    /\ boot.pc = "reconfigure"
    /\ boot' = IF answer = "y"
               THEN [boot EXCEPT
                        !.pc = "verify_again", !.region = region,
                        !.reconfigure = Some(answer),
                        !.config = Some(CompleteConfig(region)),
                        !.file = [state |-> "json",
                                  value |-> CompleteConfig(region)],
                        !.wizards = @ + 1,
                        !.list_buckets = NoOutcome,
                        !.verified = None]
               ELSE [boot EXCEPT !.pc = "exited", !.exit = Some(1),
                                 !.reconfigure = Some(answer)]
    /\ UNCHANGED <<bucket, username, upc, ui, listing>>
    /\ UNCHANGED shareVars

\* The store's answer to head_bucket agrees with the bucket it holds.
HeadBucketPossible(outcome) ==
    /\ outcome.kind = "ok" => boot.exists
    /\ (outcome.kind = "ClientError" /\ outcome.code \in {"404", "NoSuchBucket"})
          => ~boot.exists

\* ensure_bucket_exists lines 35-38 and 57-59: head_bucket and what follows
\* unless the bucket is to be created.
EnsureHead(outcome) ==
    /\ boot.pc = "ensure"
    /\ HeadBucketPossible(outcome)
    /\ LET b == [boot EXCEPT !.requests = Append(@, [op |-> "head_bucket",
                                                     Bucket |-> BUCKET_NAME]),
                             !.head_bucket = outcome]
       IN  boot' =
              IF outcome.kind = "ok" THEN [b EXCEPT !.pc = "handoff"]
              ELSE IF BucketMissing(outcome.code)
              THEN [b EXCEPT !.pc = "create"]
              ELSE [b EXCEPT !.pc = "crashed", !.raised = Some(outcome.code)]
    /\ UNCHANGED <<bucket, username, upc, ui, listing>>
    /\ UNCHANGED shareVars

\* ensure_bucket_exists lines 43-56: create_bucket; its ClientError is
\* raised again.
EnsureCreate(outcome) ==
    /\ boot.pc = "create"
    /\ LET b == [boot EXCEPT !.requests =
                                Append(@, CreateBucketRequest(boot.region)),
                             !.create_bucket = outcome]
       IN  boot' =
              IF outcome.kind = "ok"
              THEN [b EXCEPT !.pc = "handoff", !.exists = TRUE]
              ELSE [b EXCEPT !.pc = "crashed", !.raised = Some(outcome.code)]
    /\ UNCHANGED <<bucket, username, upc, ui, listing>>
    /\ UNCHANGED shareVars

\* main lines 67-73: "Connected.", S3CodeProvider(client), show_main_menu.
Handoff ==
    /\ boot.pc = "handoff"
    /\ boot' = [boot EXCEPT !.pc = "menu"]
    /\ upc' = "menu"
    /\ UNCHANGED <<bucket, username, ui, listing>>
    /\ UNCHANGED shareVars

\* The status the interpreter ends with (main lines 61, 63 and 76-77):
\* that of sys.exit, and 1 when an exception leaves main().
ExitStatus == IF boot.pc = "crashed" THEN Some(1) ELSE boot.exit

\* What the bucket may hold when the session starts: nothing; a root with
\* its placeholder and a folder holding its placeholder and two files; a
\* root with its placeholder and a folder holding only its placeholder.
Placeholder == [size |-> 0, last_modified |-> 0]
FileBuckets ==
    { << >>,
      [k \in {"alice/", "alice/docs/", "alice/docs/a.txt",
               "alice/docs/b.txt"} |->
          IF k \in {"alice/docs/a.txt", "alice/docs/b.txt"}
          THEN [size |-> 5, last_modified |-> 0]
          ELSE Placeholder],
      [k \in {"alice/", "alice/docs/"} |-> Placeholder] }

InitFiles ==
    /\ now = 0
    /\ bucket \in FileBuckets
    /\ pc = [p \in Procs |-> "idle"]
    /\ cur = [p \in Procs |-> NoCall]
    /\ last = [p \in Procs |-> NoLast]
    /\ nputs = 0
    /\ ncalls = 0
    /\ InitUi

\* One session at the terminal; the store may fail any request.
NextFiles ==
    \/ \E raw \in RawUsernames : PromptUsername(raw)
    \/ MenuExit
    \/ \E local \in LocalPaths, ok \in BOOLEAN : UploadFileFlow(local, ok)
    \/ \E local \in LocalPaths : UploadDirectoryStart(local)
    \/ \E stat_ok \in BOOLEAN, ok \in BOOLEAN :
          UploadDirectoryFile(stat_ok, ok)
    \/ \E ok \in BOOLEAN : ListPage(ok)
    \/ BrowseStart
    \/ BrowseListed
    \/ \E choice \in Choices(ui) : BrowseSelect(choice)
    \/ DownloadStart
    \/ DownloadListed
    \/ \E choice \in Choices(ui), action \in {"navigate", "download"},
          ok \in BOOLEAN : DownloadSelect(choice, action, ok)
    \/ DownloadFolderListed
    \/ \E ok \in BOOLEAN : DownloadFolderFile(ok)

SpecFiles == InitFiles /\ [][NextFiles]_vars

\* The session again, with browse_flow carried on: a running list_folder
\* fetches its next page and the loop handles its outcome; and a user who
\* is asked "Select" again and again answers 'q' at some time.
SpecBrowse ==
    InitFiles /\ [][NextFiles]_vars
        /\ WF_vars(\E ok \in BOOLEAN : ListPage(ok))
        /\ WF_vars(BrowseListed)
        /\ SF_vars(BrowseSelect([kind |-> "q"]))

\* What the bucket may hold when a session uses the share menu: alice's
\* folder with two files, without a code document or with the document
\* after one generate_code("alice/docs/") at hour 0, without or with an
\* expiry.
SharedFiles ==
    [k \in {"alice/", "alice/docs/", "alice/docs/a.txt", "alice/docs/b.txt"}
        |-> IF k \in {"alice/docs/a.txt", "alice/docs/b.txt"}
            THEN [size |-> 5, last_modified |-> 0]
            ELSE Placeholder]
SharedEntries ==
    {NewEntry("alice/docs/", 0)}
    \cup {WithExpiry(NewEntry("alice/docs/", 0), 0, h) : h \in ExpiryHours}
ShareBuckets ==
    {SharedFiles}
    \cup {WriteCodes(SharedFiles, DictSet(EmptyDict, PriorCode, e)) :
             e \in SharedEntries}

ShareUsernames == {"", " alice ", "bob"}

InitShare ==
    /\ now = 0
    /\ bucket \in ShareBuckets
    /\ pc = [p \in Procs |-> "idle"]
    /\ cur = [p \in Procs |-> NoCall]
    /\ last = [p \in Procs |-> NoLast]
    /\ nputs = 0
    /\ ncalls = 0
    /\ InitUi

\* One session at the terminal that uploads directories and uses the share
\* menu; the store may fail any request, and time passes.
NextShare ==
    \/ \E raw \in ShareUsernames : PromptUsername(raw)
    \/ MenuExit
    \/ \E local \in LocalPaths : UploadDirectoryStart(local)
    \/ \E stat_ok \in BOOLEAN, ok \in BOOLEAN :
          UploadDirectoryFile(stat_ok, ok)
    \/ \E ok \in BOOLEAN : ListPage(ok)
    \/ ShareGenerateStart
    \/ ShareGenerateListed
    \/ \E i \in 1..Len(ui.folders), answer \in ExpiryAnswers :
          ShareGenerateSelect(i, answer)
    \/ \E ok \in BOOLEAN : ShareGenerateCall(ok)
    \/ GenerateDraw(Caller)
    \/ GenerateEntry(Caller)
    \/ GenerateExpiry(Caller)
    \/ \E ok \in BOOLEAN : GenerateWrite(Caller, ok)
    \/ ShareGenerateDone
    \/ \E raw \in TypedCodes : ShareRedeemStart(raw)
    \/ \E ok \in BOOLEAN : ShareResolveCall(ok)
    \/ ResolveExpiry(Caller)
    \/ ShareRedeemResolved
    \/ DownloadFolderListed
    \/ \E ok \in BOOLEAN : DownloadFolderFile(ok)
    \/ \E raw \in TypedCodes : ShareRevokeStart(raw)
    \/ ShareRevokeResolved
    \/ \E ok \in BOOLEAN : ShareRevokeCall(ok)
    \/ \E ok \in BOOLEAN : RevokeWrite(Caller, ok)
    \/ ShareRevokeDone
    \/ Tick

SpecShare == InitShare /\ [][NextShare]_vars

\* main() at its start: some configuration file is saved or none; the
\* bucket exists or not.
InitBoot ==
    /\ now = 0
    /\ bucket = << >>
    /\ pc = [p \in Procs |-> "idle"]
    /\ cur = [p \in Procs |-> NoCall]
    /\ last = [p \in Procs |-> NoLast]
    /\ nputs = 0
    /\ ncalls = 0
    /\ username = None
    /\ upc = "prompt"
    /\ ui = NoUi
    /\ listing = NoListing
    /\ \E file \in ConfigFiles, exists \in BOOLEAN :
          boot = [NoBoot EXCEPT !.pc = "load", !.file = file,
                                !.exists = exists]

NextBoot ==
    \/ LoadAndValidate
    \/ \E region \in Regions : RunSetupWizard(region)
    \/ \E raw \in {"", " alice "} : MainPromptUsername(raw)
    \/ \E outcome \in ListBucketsOutcomes : VerifyConnection(outcome)
    \/ \E answer \in {"y", "n"}, region \in Regions :
          Reconfigure(answer, region)
    \/ \E outcome \in HeadBucketOutcomes : EnsureHead(outcome)
    \/ \E outcome \in CreateBucketOutcomes : EnsureCreate(outcome)
    \/ Handoff

SpecBoot == InitBoot /\ [][NextBoot]_vars

----------------------------------------------------------------------------
(* Properties *)

\* The code document as it is stored now.
Doc == ReadCodes(bucket)

\* Caller p finishes a call of kind op in this step.
Finishes(p, op) == pc[p] # "idle" /\ pc'[p] = "idle" /\ last'[p].op = op
\* Caller p starts and finishes a call of kind op in this single step.
RunsWhole(p, op) ==
    pc[p] = "idle" /\ pc'[p] = "idle" /\ ncalls' = ncalls + 1 /\ last'[p].op = op
Completes(p, op) == Finishes(p, op) \/ RunsWhole(p, op)

\* Caller p's previous call was a generate_code that returned a code, and
\* nothing has been written to the bucket between that call's write and the
\* read of the call p completes in this step.
AfterOwnGenerate(p) ==
    /\ last[p].op = "generate"
    /\ last[p].outcome = "returned"
    /\ last'[p].readAt = last[p].wroteAt

\* C1: when generate_code(path) without expiry returned code c and nothing
\* else ran in between, a resolve_code(c) that returns, returns exactly path.
C1_ResolveAfterGenerate ==
    [][\A p \in Procs :
          ( /\ Completes(p, "resolve")
            /\ AfterOwnGenerate(p)
            /\ IsNone(last[p].hours)
            /\ last'[p].arg = last[p].code
            /\ last'[p].outcome = "returned" )
          => last'[p].result = last[p].path]_vars

\* C1 witness: the caller generated a code without expiry (one no prior
\* document holds) and its next call resolved that code to the path.
C1_Witness ==
    /\ last[Caller].op = "resolve"
    /\ last[Caller].outcome = "returned"
    /\ last[Caller].prev.op = "generate"
    /\ last[Caller].prev.outcome = "returned"
    /\ last[Caller].prev.key = last[Caller].arg
    /\ last[Caller].readAt = nputs
    /\ Val(last[Caller].arg) # PriorCode
    /\ ~HasExpiry(Doc[Val(last[Caller].arg)])
    /\ last[Caller].result = Some("alice/docs/")

\* C2: a resolve_code that finds an entry carrying expires_at returns the
\* entry's path when the clock it reads is before expires_at and None when
\* the clock is past expires_at; the entry found for a code just generated
\* with an expiry is that grant's.
C2_ExpiryDecidesResolve ==
    [][\A p \in Procs :
          (pc[p] = "res_expiry" /\ pc'[p] = "idle") =>
             LET entry == Val(cur[p].entry)
                 expiresAt == FromIsoFormat(entry.expires_at)
             IN  /\ now < expiresAt => last'[p].result = Some(entry.path)
                 /\ now > expiresAt => last'[p].result = None
                 /\ ( /\ AfterOwnGenerate(p)
                      /\ ~IsNone(last[p].hours)
                      /\ last'[p].arg = last[p].code )
                    => /\ Some(entry.path) = last[p].path
                       /\ cur[p].readAt = last[p].wroteAt]_vars

\* C2 witness: the caller generated a code with an expiry and its next call
\* resolved that code to None after the clock passed expires_at, with no
\* write in between: the entry is still stored.
C2_Witness ==
    /\ last[Caller].op = "resolve"
    /\ last[Caller].outcome = "returned"
    /\ last[Caller].result = None
    /\ last[Caller].prev.op = "generate"
    /\ last[Caller].prev.outcome = "returned"
    /\ last[Caller].prev.key = last[Caller].arg
    /\ last[Caller].readAt = nputs
    /\ Val(last[Caller].arg) # PriorCode
    /\ Val(last[Caller].arg) \in DOMAIN Doc
    /\ HasExpiry(Doc[Val(last[Caller].arg)])
    /\ now > FromIsoFormat(Doc[Val(last[Caller].arg)].expires_at)

\* Callers p and q raced: both read the document before either wrote, p's
\* call wrote first, q's call wrote next, and nothing has been written since.
Raced(p, q) ==
    /\ p # q
    /\ last[p].op \in {"generate", "revoke"}
    /\ last[q].op \in {"generate", "revoke"}
    /\ last[p].readAt = last[q].readAt
    /\ last[p].wroteAt = last[p].readAt + 1
    /\ last[q].wroteAt = last[p].wroteAt + 1
    /\ nputs = last[q].wroteAt

SameDraw(p, q) == last[q].op = "generate" /\ last[q].code = last[p].code

\* C3 as stated: after such a race the earlier caller has its code, returned
\* without error, and that code is absent from the document and resolves to
\* None.
C3_EarlierCodeAbsent ==
    \A p, q \in Procs :
       (Raced(p, q) /\ last[p].op = "generate") =>
          /\ last[p].outcome = "returned"
          /\ ~IsNone(last[p].code)
          /\ Val(last[p].code) \notin DOMAIN Doc
          /\ ResolveCode(Doc, Val(last[p].code), now) = None

\* C3 amended: after such a race both callers have returned without error
\* and the earlier call's mutation is gone from the document.  An earlier
\* generate_code has its code, and that code is absent and resolves to None,
\* unless the later call is a generate_code that drew the same code: then
\* the code maps to the later call's path.  A code an earlier revoke_code
\* removed is in the document again, unless the later call revoked it too.
C3_EarlierMutationDiscarded ==
    \A p, q \in Procs :
       Raced(p, q) =>
          /\ last[p].outcome = "returned"
          /\ last[q].outcome = "returned"
          /\ last[p].op = "generate" =>
                /\ ~IsNone(last[p].code)
                /\ IF SameDraw(p, q)
                   THEN /\ Val(last[p].code) \in DOMAIN Doc
                        /\ Some(Doc[Val(last[p].code)].path) = last[q].path
                   ELSE /\ Val(last[p].code) \notin DOMAIN Doc
                        /\ ResolveCode(Doc, Val(last[p].code), now) = None
          /\ (last[p].op = "revoke" /\ last[p].found) =>
                (Val(KeyOf(last[p])) \in DOMAIN Doc
                    <=> ~(last[q].op = "revoke" /\ KeyOf(last[q]) = KeyOf(last[p])))

\* C3 witness: two generate_code calls raced, drew different codes, and the
\* earlier caller's code is not in the document.
C3_Witness ==
    \E p, q \in Procs :
       /\ Raced(p, q)
       /\ last[p].op = "generate"
       /\ last[q].op = "generate"
       /\ last[q].code # last[p].code
       /\ Val(last[p].code) \notin DOMAIN Doc
       /\ Val(last[q].code) \in DOMAIN Doc

\* C4: a code generate_code has accepted is not a key of the document the
\* call read, into which it inserts the entry, nor of the stored document
\* unless another caller has written since that read; while the loop still
\* draws, no code is accepted.
C4_AcceptedCodeIsNew ==
    \A p \in Procs :
       /\ pc[p] \in {"gen_entry", "gen_expiry", "gen_write"} =>
             /\ Val(cur[p].code) \notin DOMAIN cur[p].codes
             /\ cur[p].readAt = nputs => Val(cur[p].code) \notin DOMAIN Doc
       /\ pc[p] = "gen_draw" => IsNone(cur[p].code)

\* C4 witness: the first draw collided with a stored key, a second draw was
\* made, and its code is about to be inserted.
C4_Witness ==
    /\ pc[Caller] = "gen_write"
    /\ cur[Caller].draws >= 2
    /\ cur[Caller].readAt = nputs
    /\ DOMAIN cur[Caller].codes # {}
    /\ Val(cur[Caller].code) \notin DOMAIN Doc

\* C5: a revoke_code(c) whose put_object succeeds removes exactly the key
\* c.upper() from the document and leaves every other key and value as it
\* was; it raises nothing of its own, whether or not the code is known.
C5_RevokeRemovesOnlyItsCode ==
    [][\A p \in Procs :
          (pc[p] = "rev_write" /\ pc'[p] = "idle") =>
             LET key == Upper(Val(cur[p].arg))
             IN  /\ last'[p].outcome \in {"returned", "ClientError"}
                 /\ last'[p].outcome = "ClientError" => nputs' = nputs
                 /\ last'[p].outcome = "returned" =>
                       /\ DOMAIN Doc' = DOMAIN Doc \ {key}
                       /\ \A k \in DOMAIN Doc' : Doc'[k] = Doc[k]]_vars

\* C5 witness: a revoke_code of a code that was in the document has
\* returned; that code is gone and another entry is still there.
C5_Witness ==
    /\ last[Caller].op = "revoke"
    /\ last[Caller].outcome = "returned"
    /\ last[Caller].found
    /\ last[Caller].wroteAt = nputs
    /\ Upper(Val(last[Caller].arg)) \notin DOMAIN Doc
    /\ DOMAIN Doc # {}

\* C6: revoke_code's read writes nothing, only a failing store request makes
\* revoke_code raise, and every revoke_code that returns has issued exactly
\* one put_object, after which the document exists, also when the code was
\* unknown or there was no document; revoking an unknown code leaves the
\* mapping as it was; a revoke_code(c) right after a revoke_code(c) leaves
\* the stored document as the first left it.
C6_RevokeIdempotentOneWrite ==
    [][\A p \in Procs :
          /\ (pc[p] = "idle" /\ pc'[p] = "rev_write") =>
                (nputs' = nputs /\ bucket' = bucket)
          /\ (pc[p] = "rev_write" /\ pc'[p] = "idle") =>
                last'[p].outcome \in {"returned", "ClientError"}
          /\ (pc[p] = "rev_write" /\ pc'[p] = "idle"
                /\ last'[p].outcome = "returned") =>
                LET key == Upper(Val(cur[p].arg))
                IN  /\ nputs' = nputs + 1
                    /\ CODES_KEY \in DOMAIN bucket'
                    /\ key \notin DOMAIN Doc => Doc' = Doc
                    /\ ( /\ last[p].op = "revoke"
                         /\ last[p].outcome = "returned"
                         /\ KeyOf(last[p]) = Some(key)
                         /\ last[p].wroteAt = nputs )
                       => bucket' = bucket]_vars

\* C6 witness: the caller has revoked the same code twice in a row; the
\* first call found it in the document, the second did not; both returned
\* and each wrote the document.
C6_Witness ==
    /\ last[Caller].op = "revoke"
    /\ last[Caller].outcome = "returned"
    /\ ~last[Caller].found
    /\ last[Caller].prev.op = "revoke"
    /\ last[Caller].prev.outcome = "returned"
    /\ last[Caller].prev.found
    /\ last[Caller].prev.key = KeyOf(last[Caller])
    /\ last[Caller].wroteAt = nputs
    /\ nputs = 2

\* C7 as stated: for every code string, resolve_code of its lowercase and
\* of its uppercase give the same result, and revoke_code of either leaves
\* the same document.
C7_LookupIgnoresCase ==
    \A code \in CodeArgs :
       /\ ResolveCode(Doc, Lower(code), now) = ResolveCode(Doc, Upper(code), now)
       /\ RevokePop(Doc, Lower(code)) = RevokePop(Doc, Upper(code))

\* The code strings made of ASCII characters only.
AsciiCodeArgs == {code \in CodeArgs : \A i \in DOMAIN code : code[i] # "K_212A"}

\* C7 amended: for every code string of ASCII characters, resolve_code of
\* its lowercase and of its uppercase give the same result, and revoke_code
\* of either leaves the same document.
C7_AsciiLookupIgnoresCase ==
    \A code \in AsciiCodeArgs :
       /\ ResolveCode(Doc, Lower(code), now) = ResolveCode(Doc, Upper(code), now)
       /\ RevokePop(Doc, Lower(code)) = RevokePop(Doc, Upper(code))

\* C7 witness: resolve_code of a code given in lowercase has found the
\* stored uppercase code and returned its path.
C7_Witness ==
    /\ last[Caller].op = "resolve"
    /\ last[Caller].outcome = "returned"
    /\ last[Caller].found
    /\ ~IsNone(last[Caller].result)
    /\ Val(last[Caller].arg) # Upper(Val(last[Caller].arg))
    /\ Val(last[Caller].arg) = Lower(Val(last[Caller].arg))

\* A step of resolve_code by caller p.
ResolveStep(p) ==
    \/ pc[p] = "idle" /\ pc'[p] = "res_expiry"
    \/ Completes(p, "resolve")

\* C8: no step of resolve_code writes to the bucket, whatever the code:
\* unknown, valid or expired.
C8_ResolveNeverWrites ==
    [][\A p \in Procs :
          ResolveStep(p) => (bucket' = bucket /\ nputs' = nputs)]_vars

Expired(entry, t) == HasExpiry(entry) /\ t > FromIsoFormat(entry.expires_at)

\* C8 witness: resolve_code has returned None for an expired code that was
\* in a prior document, and the bucket is still that prior document.
C8_Witness ==
    /\ last[Caller].op = "resolve"
    /\ last[Caller].outcome = "returned"
    /\ last[Caller].result = None
    /\ last[Caller].found
    /\ nputs = 0
    /\ bucket \in PriorBuckets
    /\ Expired(Doc[Upper(Val(last[Caller].arg))], now)

\* The entries of a document that have not expired at time t.
Live(codes, t) ==
    [k \in {x \in DOMAIN codes : ~Expired(codes[x], t)} |-> codes[k]]
LookupLive(codes, key, t) ==
    IF key \in DOMAIN Live(codes, t) THEN Some(codes[key].path) ELSE None

\* The document a finishing resolve_code has read.
CodesRead(p) == IF pc[p] = "idle" THEN Doc ELSE cur[p].codes
\* generate_code draws again / accepts a draw in this step.
DrawsAgain(p) ==
    pc[p] = "gen_draw" /\ pc'[p] = "gen_draw"
        /\ cur'[p].draws = cur[p].draws + 1
AcceptsDraw(p) == pc[p] = "gen_draw" /\ pc'[p] = "gen_entry"

\* What resolve_code and revoke_code do with expired entries.
ExpiredIsAbsentToResolveAndRevoke(p) ==
    /\ (Completes(p, "resolve") /\ last'[p].outcome = "returned") =>
          last'[p].result =
             LookupLive(CodesRead(p), Upper(Val(last'[p].arg)), now)
    /\ (pc[p] = "rev_write" /\ pc'[p] = "idle"
          /\ last'[p].outcome = "returned") =>
          Live(Doc', now) = DictPop(Live(Doc, now), Upper(Val(cur[p].arg)))

\* C9 as stated: every reader treats an expired entry as a missing one:
\* resolve_code, the revoke flow, and generate_code's collision check, which
\* then draws again only when a draw can meet an entry that has not expired.
C9_ExpiredIsAbsentToAll ==
    [][\A p \in Procs :
          /\ ExpiredIsAbsentToResolveAndRevoke(p)
          /\ DrawsAgain(p) =>
                DOMAIN Live(cur[p].codes, now)
                    \cap RandomChoices(CODE_CHARS, CODE_LENGTH) # {}]_vars

\* C9 amended: resolve_code, and the revoke flow, treat an expired entry as
\* a missing one; generate_code's collision check treats it as present: it
\* draws again only when a draw can meet a stored key, expired or not, and
\* the code it accepts is no stored key, expired or not.
C9_ExpiredIsAbsentToResolve ==
    [][\A p \in Procs :
          /\ ExpiredIsAbsentToResolveAndRevoke(p)
          /\ DrawsAgain(p) =>
                DOMAIN cur[p].codes
                    \cap RandomChoices(CODE_CHARS, CODE_LENGTH) # {}
          /\ AcceptsDraw(p) =>
                Val(cur'[p].code) \notin DOMAIN cur[p].codes]_vars

\* C9 witness: resolve_code returned None for a stored, expired code; the
\* caller's next call, a generate_code, read a document holding only that
\* code, drew again and has accepted another code.
C9_Witness ==
    /\ last[Caller].op = "resolve"
    /\ last[Caller].outcome = "returned"
    /\ last[Caller].result = None
    /\ last[Caller].found
    /\ pc[Caller] = "gen_write"
    /\ cur[Caller].draws >= 2
    /\ DOMAIN cur[Caller].codes = {Upper(Val(last[Caller].arg))}

\* Caller p's put_object happens in this step.
WriteStep(p) == pc[p] \in {"gen_write", "rev_write"} /\ pc'[p] = "idle"

\* In this step no stored entry changes its value, a key appears only by the
\* write of a generate_code that returns it, and a key disappears only by
\* the write of a revoke_code of it.
EntriesOnlyCreatedAndDeleted ==
    /\ \A k \in DOMAIN Doc \cap DOMAIN Doc' : Doc'[k] = Doc[k]
    /\ \A k \in DOMAIN Doc' \ DOMAIN Doc :
          \E p \in Procs : /\ pc[p] = "gen_write" /\ pc'[p] = "idle"
                            /\ cur[p].code = Some(k)
    /\ \A k \in DOMAIN Doc \ DOMAIN Doc' :
          \E p \in Procs : /\ pc[p] = "rev_write" /\ pc'[p] = "idle"
                            /\ Upper(Val(cur[p].arg)) = k

\* C10 as stated: an entry keeps its path, created_at and expires_at from
\* its insertion to its deletion; entries are only created by generate_code
\* and only deleted by revoke_code.
C10_NeverUpdatedInPlace == [][EntriesOnlyCreatedAndDeleted]_vars

\* C10 amended: the same, for every write of a call that no other write has
\* overtaken since the call read the document; steps that are not a write
\* leave the document as it is.
C10_NeverUpdatedUnlessOvertaken ==
    [][IF \E p \in Procs : WriteStep(p)
       THEN \A p \in Procs :
               (WriteStep(p) /\ cur[p].readAt = nputs)
                  => EntriesOnlyCreatedAndDeleted
       ELSE Doc' = Doc]_vars

\* C10 witness: a caller generated a code and then revoked it, neither call
\* overtaken by another write; the code is gone.
C10_Witness ==
    \E p \in Procs :
       /\ last[p].op = "revoke"
       /\ last[p].found
       /\ last[p].wroteAt = last[p].readAt + 1
       /\ last[p].wroteAt = nputs
       /\ last[p].prev.op = "generate"
       /\ last[p].prev.key = KeyOf(last[p])
       /\ Val(KeyOf(last[p])) \notin DOMAIN Doc

\* C12: the write of a generate_code that no other write has overtaken adds
\* exactly one key, the code it returns, with the entry it built, and leaves
\* every entry that was stored as it was, expired or not.
C12_GenerateAddsOneEntry ==
    [][\A p \in Procs :
          ( /\ pc[p] = "gen_write" /\ pc'[p] = "idle"
            /\ last'[p].outcome = "returned"
            /\ cur[p].readAt = nputs ) =>
             LET code == Val(cur[p].code)
             IN  /\ last'[p].code = Some(code)
                 /\ code \notin DOMAIN Doc
                 /\ DOMAIN Doc' = DOMAIN Doc \cup {code}
                 /\ Doc'[code] = Val(cur[p].entry)
                 /\ \A k \in DOMAIN Doc : Doc'[k] = Doc[k]]_vars

\* C12 witness: generate_code has returned a code whose entry was created
\* after the stored prior entry had expired; both are in the document.
C12_Witness ==
    /\ last[Caller].op = "generate"
    /\ last[Caller].outcome = "returned"
    /\ last[Caller].wroteAt = nputs
    /\ PriorCode \in DOMAIN Doc
    /\ HasExpiry(Doc[PriorCode])
    /\ Val(last[Caller].code) \in DOMAIN Doc
    /\ FromIsoFormat(Doc[Val(last[Caller].code)].created_at)
           > FromIsoFormat(Doc[PriorCode].expires_at)

\* Caller p issues the get_object of a call in this step (p being the one
\* caller that takes steps).
ReadStep(p) == pc[p] = "idle" /\ ncalls' = ncalls + 1

\* C13: a ClientError a call raises carries the error code the store gave,
\* which is never NoSuchKey or 404; a call whose get_object finds no document
\* goes on with the empty mapping: resolve_code returns None whatever the
\* code, generate_code goes on to write a document of one entry, revoke_code
\* goes on to write the empty document.
C13_MissingDocumentIsEmptyMapping ==
    [][\A p \in {Caller} :
          /\ last'[p].outcome = "ClientError" =>
                last'[p].error = Some("AccessDenied")
          /\ (ReadStep(p) /\ CODES_KEY \notin DOMAIN bucket
                /\ pc'[p] # "idle") => cur'[p].codes = EmptyDict
          /\ (ReadStep(p) /\ CODES_KEY \notin DOMAIN bucket
                /\ pc'[p] = "idle") =>
                \/ last'[p].outcome = "ClientError"
                \/ /\ last'[p].op = "resolve"
                   /\ last'[p].outcome = "returned"
                   /\ last'[p].result = None
          /\ (WriteStep(p) /\ CODES_KEY \notin DOMAIN bucket
                /\ last'[p].outcome = "returned") =>
                /\ CODES_KEY \in DOMAIN bucket'
                /\ last'[p].op = "generate" =>
                      DOMAIN Doc' = {Val(last'[p].code)}
                /\ last'[p].op = "revoke" => Doc' = EmptyDict]_vars

\* C13 witness: with no document stored, resolve_code returned None and the
\* caller's next call, a generate_code, returned a code; the document now
\* stored holds that one entry.
C13_Witness ==
    /\ last[Caller].op = "generate"
    /\ last[Caller].outcome = "returned"
    /\ last[Caller].prev.op = "resolve"
    /\ last[Caller].prev.outcome = "returned"
    /\ ~last[Caller].prev.found
    /\ last[Caller].readAt = 0
    /\ nputs = 1
    /\ DOMAIN Doc = {Val(last[Caller].code)}

\* The uppercase letters A-Z and the digits 0-9.
UpperLetters == {"A", "B", "C", "D", "E", "F", "G", "H", "I", "J", "K", "L",
                 "M", "N", "O", "P", "Q", "R", "S", "T", "U", "V", "W", "X",
                 "Y", "Z"}
Digits == {"0", "1", "2", "3", "4", "5", "6", "7", "8", "9"}
SixUpperAlnum(code) ==
    /\ Len(code) = 6
    /\ \A i \in 1..Len(code) : code[i] \in UpperLetters \cup Digits

\* C14: every code generate_code has accepted or returned, and every key of
\* the stored document, is 6 characters long, each an uppercase letter or a
\* digit.
C14_CodesAreSixUpperAlnum ==
    /\ \A p \in Procs :
          /\ ~IsNone(cur[p].code) => SixUpperAlnum(Val(cur[p].code))
          /\ (last[p].op = "generate" /\ last[p].outcome = "returned") =>
                SixUpperAlnum(Val(last[p].code))
    /\ \A k \in DOMAIN Doc : SixUpperAlnum(k)

\* C14 witness: generate_code has returned a code, now a key of the
\* document next to the prior one.
C14_Witness ==
    /\ last[Caller].op = "generate"
    /\ last[Caller].outcome = "returned"
    /\ Val(last[Caller].code) \in DOMAIN Doc
    /\ Val(last[Caller].code) # PriorCode
    /\ PriorCode \in DOMAIN Doc
    /\ Len(Val(last[Caller].code)) = 6

\* C15 as stated: the entry generate_code is about to write has expires_at
\* exactly when an expiry duration was given, expires_at is then created_at
\* plus that duration, and created_at is not later than the clock.
C15_ExpiresAtIsCreatedAtPlusDuration ==
    \A p \in Procs :
       pc[p] = "gen_write" =>
          LET entry == Val(cur[p].entry)
          IN  /\ HasExpiry(entry) <=> ~IsNone(cur[p].hours)
              /\ FromIsoFormat(entry.created_at) <= now
              /\ HasExpiry(entry) =>
                    FromIsoFormat(entry.expires_at) =
                       FromIsoFormat(entry.created_at) + Val(cur[p].hours)

\* Some code that can be drawn is not a key of the document p has read.  (The
\* draws modelled are two of the 36^6 codes; a document holding both stands
\* for a document holding every code of the alphabet.)
CodeLeft(p) ==
    RandomChoices(CODE_CHARS, CODE_LENGTH) \ DOMAIN cur[p].codes # {}

\* C16: under fair draws every call that has started ends, returning or
\* raising; generate_code's loop ends whenever the document read leaves a
\* code to draw.
C16_EveryCallEnds ==
    \A p \in {Caller} :
       (pc[p] # "idle" /\ (pc[p] = "gen_draw" => CodeLeft(p)))
           ~> (pc[p] = "idle")

\* C16 witness: generate_code's loop has ended after MaxDraws draws, all
\* but the last of them colliding with a stored key.
C16_Witness ==
    /\ pc[Caller] = "gen_entry"
    /\ cur[Caller].draws = MaxDraws
    /\ DOMAIN cur[Caller].codes # {}
    /\ ~IsNone(cur[Caller].code)

\* C11: no upload writes the reserved key of the code document: every step
\* of a session that creates or overwrites an object leaves the object at
\* _system/codes.json as it was.
C11_UploadsNeverWriteCodesKey ==
    [][\A key \in DOMAIN bucket' :
          (key \notin DOMAIN bucket \/ bucket'[key] # bucket[key])
             => key # CODES_KEY]_vars

\* The keys of the leaf objects the store holds directly under prefix, the
\* object at prefix itself left aside.
DirectLeaves(b, prefix) ==
    {key \in DOMAIN b :
        /\ StartsWith(key, prefix)
        /\ key # prefix
        /\ FindDelimiter(key, Len(prefix) + 1) = 0}

\* The keys of the records of a sequence.
KeysOf(records) == {records[i].key : i \in DOMAIN records}

\* C17: the file records list_folder(prefix) returns never hold the key
\* prefix itself, and hold every other leaf object directly under prefix.
C17_PlaceholderDroppedLeavesKept ==
    (listing.op = "list_folder" /\ listing.status = "returned")
       => /\ listing.prefix \notin KeysOf(listing.files)
          /\ DirectLeaves(bucket, listing.prefix) \subseteq
                KeysOf(listing.files)

\* C17 witness: list_folder has returned file records for a prefix whose
\* placeholder object is in the store.
C17_Witness ==
    /\ listing.op = "list_folder"
    /\ listing.status = "returned"
    /\ listing.prefix \in DOMAIN bucket
    /\ listing.files # << >>

\* The common prefixes of the first n pages, one after the other.
RECURSIVE FoldersUpTo(_, _)
FoldersUpTo(pages, n) ==
    IF n = 0 THEN << >>
    ELSE FoldersUpTo(pages, n - 1) \o
            [i \in 1..Len(PageGet(pages[n], "CommonPrefixes")) |->
                PageGet(pages[n], "CommonPrefixes")[i].Prefix]

\* The keys of the contents of the first n pages, one after the other, the
\* object at prefix left aside.
RECURSIVE ContentKeysUpTo(_, _, _)
ContentKeysUpTo(pages, prefix, n) ==
    IF n = 0 THEN << >>
    ELSE ContentKeysUpTo(pages, prefix, n - 1) \o
            SelectSeq([i \in 1..Len(PageGet(pages[n], "Contents")) |->
                          PageGet(pages[n], "Contents")[i].Key],
                      LAMBDA key : key # prefix)

\* The keys of a sequence of records, in its order.
KeySeq(records) == [i \in DOMAIN records |-> records[i].key]

\* C18: the folders and files of list_folder are the common prefixes and
\* the contents of the pages read so far, concatenated in page order, and
\* the call returns only after the last page.
C18_PagesAreConcatenated ==
    (listing.op = "list_folder" /\ listing.status \in {"running", "returned"})
       => LET pages == StorePages(bucket, listing.prefix, TRUE)
          IN  /\ listing.folders = FoldersUpTo(pages, listing.page)
              /\ KeySeq(listing.files) =
                    ContentKeysUpTo(pages, listing.prefix, listing.page)
              /\ listing.status = "returned" => listing.page = Len(pages)

\* C18 witness: list_folder has returned from a listing of two pages, each
\* with a file kept, the second with a folder.
C18_Witness ==
    /\ listing.op = "list_folder"
    /\ listing.status = "returned"
    /\ listing.page = 2
    /\ LET pages == StorePages(bucket, listing.prefix, TRUE)
       IN  /\ ContentKeysUpTo(pages, listing.prefix, 1) # << >>
           /\ Len(listing.files) > Len(ContentKeysUpTo(pages, listing.prefix, 1))
           /\ listing.folders # << >>

\* The objects of the store under prefix at any depth, from position i of
\* the store's order on, the object at prefix left aside.
RECURSIVE ObjectsUnder(_, _, _)
ObjectsUnder(b, prefix, i) ==
    IF i > Len(KeyOrder) THEN << >>
    ELSE LET key == KeyOrder[i]
         IN  (IF key \in DOMAIN b /\ StartsWith(key, prefix) /\ key # prefix
              THEN << [key |-> key, size |-> b[key].size] >>
              ELSE << >>) \o ObjectsUnder(b, prefix, i + 1)

\* C19: list_all_objects(prefix) returns every object under prefix at any
\* depth, in the store's order, without the object at prefix itself.
C19_AllObjectsAtAnyDepth ==
    (listing.op = "list_all_objects" /\ listing.status = "returned")
       => /\ listing.files = ObjectsUnder(bucket, listing.prefix, 1)
          /\ listing.folders = << >>

\* C19 witness: list_all_objects has returned, over two pages, the objects
\* of a prefix whose placeholder is in the store, one of them in a
\* subfolder.
C19_Witness ==
    /\ listing.op = "list_all_objects"
    /\ listing.status = "returned"
    /\ listing.page >= 2
    /\ listing.prefix \in DOMAIN bucket
    /\ \E i \in DOMAIN listing.files :
          FindDelimiter(listing.files[i].key, Len(listing.prefix) + 1) # 0

\* The messages of an empty folder.
EmptyMessages == {"Nothing uploaded yet.", "This folder is empty."}

C21_ListingAllOrNothing ==
    listing.status = "raised"
       => /\ listing.error = Some("AccessDenied")
          /\ listing.folders = << >>
          /\ listing.files = << >>

\* C21 witness: a call has failed on its second page, after a first page
\* that held an entry the call would have returned.
C21_Witness ==
    /\ listing.status = "raised"
    /\ listing.page = 1
    /\ LET page == StorePages(bucket, listing.prefix,
                              UsesDelimiter(listing.op))[1]
       IN  \/ FoldersOf(page) # << >>
           \/ ObjectsOf(listing.prefix, page) # << >>

\* C22: when the only object under the user's prefix is a file uploaded by
\* _upload_file_flow, list_folder of that prefix returns no folder and one
\* file record, with the key "<username>/<file name>" and the file's size.
C22_ListingReflectsUpload ==
    \A local \in {l \in LocalPaths : l.exists /\ l.is_file} :
       ( /\ listing.op = "list_folder"
         /\ listing.status = "returned"
         /\ listing.prefix = RootPrefix
         /\ {key \in DOMAIN bucket : StartsWith(key, RootPrefix)} =
               {RootPrefix \o local.name} )
          => /\ listing.folders = << >>
             /\ Len(listing.files) = 1
             /\ listing.files[1].key = RootPrefix \o local.name
             /\ listing.files[1].size = local.size

\* C22 witness: alice has uploaded codes.json to an empty bucket and the
\* listing of "alice/" has returned.
C22_Witness ==
    /\ listing.op = "list_folder"
    /\ listing.status = "returned"
    /\ listing.prefix = "alice/"
    /\ DOMAIN bucket = {"alice/codes.json"}

\* A batch loop is at one of its files.
BatchRunning == upc \in {"up_file", "df_file"}

\* The name under which the batch reports the file at the head of its queue.
BatchName ==
    IF upc = "up_file" THEN AsPosix(Head(ui.queue).relative)
    ELSE RelativeTo(Head(ui.queue).key, ui.prefix)

\* The elements of a sequence are pairwise different.
NoDuplicates(seq) ==
    \A i, j \in DOMAIN seq : i # j => seq[i] # seq[j]

\* C23: every file a batch has processed is counted once, as a success or
\* as a failure under its relative path (an upload counted as a success has
\* stored the file, one recorded as a failure has stored nothing), and at
\* the end successes + len(failures) is the number of files found, each
\* failure being a different file.
C23_BatchAccounting ==
    [][(BatchRunning /\ upc' # "crashed")
          => /\ \/ /\ ui'.successes = ui.successes + 1
                   /\ ui'.failures = ui.failures
                   /\ upc = "up_file" =>
                         /\ Val(ui'.s3_key) \in DOMAIN bucket'
                         /\ bucket'[Val(ui'.s3_key)].size =
                               Head(ui.queue).size
                \/ /\ ui'.successes = ui.successes
                   /\ ui'.failures = Append(ui.failures, BatchName)
                   /\ bucket' = bucket
             /\ ui'.successes + Len(ui'.failures) + Len(ui'.queue) = ui.total
             /\ ui'.total = ui.total
             /\ upc' = "menu" =>
                   /\ ui'.queue = << >>
                   /\ ui'.successes + Len(ui'.failures) = ui'.total
                   /\ ui'.successes = ui'.total - Len(ui'.failures)
                   /\ NoDuplicates(ui'.failures)]_vars

\* C23 witness: a directory upload over two files has ended with one
\* success and one failure.
C23_Witness ==
    /\ upc = "menu"
    /\ ui.flow = "upload_directory"
    /\ ui.total = 2
    /\ ui.successes = 1
    /\ Len(ui.failures) = 1

\* C24: whatever happens while a batch processes one file, the batch goes
\* on to its next file or, after the last, to its summary.
C24_BatchNeverAborted ==
    [][BatchRunning
          => /\ upc' \in {"up_file", "df_file", "menu"}
             /\ ui'.queue = Tail(ui.queue)
             /\ ui'.successes + Len(ui'.failures) =
                   ui.successes + Len(ui.failures) + 1]_vars

\* The parts of a POSIX path: what stands between its "/".
RECURSIVE SplitPosix(_)
SplitPosix(path) ==
    IF FindDelimiter(path, 1) = 0 THEN << path >>
    ELSE << SubSeq(path, 1, FindDelimiter(path, 1) - 1) >> \o
            SplitPosix(SubSeq(path, FindDelimiter(path, 1) + 1, Len(path)))

\* C25: the key a directory upload builds for a file is
\* "<username>/<directory name>/" followed by the parts of the file's
\* relative path joined by "/", and differs from the key of every other
\* file of the batch.
C25_DirectoryKeysKeepStructure ==
    [][(upc = "up_file" /\ upc' # "crashed")
          => LET key == Val(ui'.s3_key)
                 base == RootPrefix \o ui.folder_name \o "/"
                 i == ui.total - Len(ui.queue) + 1
             IN  /\ StartsWith(key, RootPrefix)
                 /\ StartsWith(key, base)
                 /\ SplitPosix(RelativeTo(key, base)) = ui.all_files[i].relative
                 /\ \A j \in 1..ui.total :
                       j # i => key # DirectoryKey(Val(username),
                                                  ui.folder_name,
                                                  ui.all_files[j].relative)]_vars

\* C25 witness: a directory upload has stored b.txt and old/b.txt of docs
\* under two keys.
C25_Witness ==
    /\ ui.flow = "upload_directory"
    /\ ui.s3_key = Some("alice/docs/old/b.txt")
    /\ {"alice/docs/b.txt", "alice/docs/old/b.txt"} \subseteq DOMAIN bucket
    /\ bucket["alice/docs/b.txt"].size # bucket["alice/docs/old/b.txt"].size

\* C26: no store request is issued again after it failed: a provider call
\* issues at most one get_object and at most one put_object, and a batch
\* passes each of its files to the store at most once.
C26_NothingRetried ==
    /\ \A p \in {Caller} :
          /\ cur[p].gets <= 1 /\ cur[p].puts <= 1
          /\ last[p].gets <= 1 /\ last[p].puts <= 1
          /\ last[p].outcome = "ClientError" =>
                last[p].gets + last[p].puts
                   = (IF last[p].error = Some("AccessDenied")
                         /\ last[p].puts = 0 THEN 1 ELSE 2)
    /\ NoDuplicates(ui.attempted)
    /\ Len(ui.attempted) <= ui.total

\* C26 witness: generate_code has raised the error of its one put_object
\* and the share menu has gone back to the main menu.
C26_Witness ==
    /\ last[Caller].op = "generate"
    /\ last[Caller].outcome = "ClientError"
    /\ last[Caller].gets = 1
    /\ last[Caller].puts = 1
    /\ upc = "menu"
    /\ ui.out = "Failed to generate code:"

\* The provider call op starts in this step.
CallStarts(op) ==
    /\ ncalls' = ncalls + 1
    /\ (IF pc'[Caller] = "idle" THEN last'[Caller].op
                                ELSE cur'[Caller].op) = op

\* The argument of the provider call that starts in this step.
StartedArg ==
    IF pc'[Caller] = "idle" THEN last'[Caller].arg ELSE cur'[Caller].arg

\* The menu flow takes a step (and not the provider or the clock).
FlowActs == upc' # upc \/ ui' # ui

\* C27: in the revoke action revoke_code is called only after resolve_code
\* of the typed code has returned a path, once and with the same uppercased
\* code; when resolve_code returns None the action reports "not found" and
\* ends without calling revoke_code, and when it returns a path the action
\* goes on to call revoke_code.
C27_RevokeOnlyResolvedCodes ==
    [][/\ CallStarts("revoke")
          => /\ last[Caller].op = "resolve"
             /\ last[Caller].outcome = "returned"
             /\ ~IsNone(last[Caller].result)
             /\ last[Caller].arg = ui.code
             /\ StartedArg = ui.code
             /\ Upper(Val(ui.code)) = Val(ui.code)
       /\ (upc = "rv_resolve" /\ CallDone /\ FlowActs
           /\ last[Caller].outcome = "returned"
           /\ IsNone(last[Caller].result))
          => /\ upc' = "menu"
             /\ ui'.out = "Code not found or already expired."
             /\ ncalls' = ncalls
       /\ (upc = "rv_resolve" /\ CallDone /\ FlowActs
           /\ last[Caller].outcome = "returned"
           /\ ~IsNone(last[Caller].result))
          => /\ upc' = "rv_revoke"
             /\ ncalls < MaxCalls
       /\ (upc = "rv_revoke" /\ CallDone /\ FlowActs) => upc' = "menu"]_vars

\* C27 witness: the revoke action has revoked a code of the document and
\* confirmed it.
C27_Witness ==
    /\ ui.flow = "share_revoke"
    /\ upc = "menu"
    /\ ui.out = "revoked."
    /\ last[Caller].op = "revoke"
    /\ last[Caller].outcome = "returned"
    /\ last[Caller].prev.op = "resolve"
    /\ CODES_KEY \in DOMAIN bucket
    /\ Val(ui.code) \notin DOMAIN ReadCodes(bucket)

\* C28: the redeem action starts the folder download only after
\* resolve_code of the typed code has returned a path, and then on that
\* path, whoever the user is; when resolve_code returns None or raises, the
\* action ends without a download.
C28_RedeemDownloadsGrantedPath ==
    [][/\ (listing'.op = "list_all_objects" /\ listing.op # "list_all_objects")
          => /\ upc = "rd_resolve"
             /\ last[Caller].op = "resolve"
             /\ last[Caller].outcome = "returned"
             /\ last[Caller].arg = ui.code
             /\ ~IsNone(last[Caller].result)
             /\ listing'.prefix = Val(last[Caller].result)
             /\ ui'.prefix = Val(last[Caller].result)
             /\ Val(ui.code) \in DOMAIN ReadCodes(bucket)
                   => ReadCodes(bucket)[Val(ui.code)].path = listing'.prefix
       /\ (upc = "rd_resolve" /\ CallDone /\ FlowActs
           /\ (last[Caller].outcome # "returned" \/ IsNone(last[Caller].result)))
          => /\ upc' = "menu"
             /\ listing' = NoListing
       /\ (upc = "rd_resolve" /\ CallDone /\ FlowActs
           /\ last[Caller].outcome = "returned"
           /\ ~IsNone(last[Caller].result))
          => /\ upc' = "df_list"
             /\ listing'.op = "list_all_objects"]_vars

\* C28 witness: bob has redeemed the code of alice's folder and the
\* download of "alice/docs/" is at its files.
C28_Witness ==
    /\ username = Some("bob")
    /\ ui.flow = "share_redeem"
    /\ upc = "df_file"
    /\ ui.prefix = "alice/docs/"
    /\ ui.total = 2

\* C29: verify_connection returns True exactly when list_buckets answers
\* or raises a ClientError with code AccessDenied or 403, returns False for
\* every other ClientError and for NoCredentialsError, and raises for none
\* of these.
C29_VerifyConnectionResult ==
    boot.list_buckets.kind \in {"ok", "ClientError", "NoCredentialsError"}
       => /\ ~IsNone(boot.verified)
          /\ boot.raised # Some(boot.list_buckets.kind)
          /\ Val(boot.verified) <=>
                \/ boot.list_buckets.kind = "ok"
                \/ /\ boot.list_buckets.kind = "ClientError"
                   /\ boot.list_buckets.code \in {"AccessDenied", "403"}

\* C29 witness: verify_connection has returned True on a ClientError of
\* code AccessDenied, at the second attempt.
C29_Witness ==
    /\ boot.list_buckets = ClientError("AccessDenied")
    /\ boot.verified = Some(TRUE)
    /\ boot.pc = "ensure"
    /\ Len(boot.requests) = 2

\* The create_bucket requests sent so far.
CreateRequests == SelectSeq(boot.requests, LAMBDA r : r.op = "create_bucket")

\* C30: ensure_bucket_exists sends create_bucket exactly when head_bucket
\* failed with 404 or NoSuchBucket, once, with a LocationConstraint exactly
\* when the region is not us-east-1; when the bucket exists it creates
\* nothing and returns; any other head_bucket error and any create_bucket
\* error is raised with nothing further created.
C30_EnsureBucketExists ==
    /\ Len(CreateRequests) <= 1
    /\ boot.head_bucket.kind = "ok"
          => /\ CreateRequests = << >>
             /\ IsNone(boot.raised)
             /\ boot.pc \in {"handoff", "menu"}
    /\ boot.head_bucket.kind = "ClientError"
          => IF boot.head_bucket.code \in {"404", "NoSuchBucket"}
             THEN \/ /\ boot.pc = "create"
                     /\ CreateRequests = << >>
                  \/ /\ Len(CreateRequests) = 1
                     /\ boot.create_bucket.kind = "ok"
                           => (IsNone(boot.raised) /\ boot.exists)
                     /\ boot.create_bucket.kind = "ClientError"
                           => /\ boot.raised = Some(boot.create_bucket.code)
                              /\ boot.pc = "crashed"
                              /\ ~boot.exists
             ELSE /\ CreateRequests = << >>
                  /\ boot.raised = Some(boot.head_bucket.code)
                  /\ boot.pc = "crashed"
    /\ boot.head_bucket.kind = "none" => CreateRequests = << >>
    /\ \A i \in DOMAIN CreateRequests :
          /\ CreateRequests[i].Bucket = BUCKET_NAME
          /\ ("CreateBucketConfiguration" \in DOMAIN CreateRequests[i])
                <=> boot.region # "us-east-1"
          /\ boot.region # "us-east-1"
                => CreateRequests[i].CreateBucketConfiguration
                      = [LocationConstraint |-> boot.region]

\* C30 witness: after NoSuchBucket the bucket has been created in
\* us-west-2 with a LocationConstraint.
C30_Witness ==
    /\ boot.head_bucket = ClientError("NoSuchBucket")
    /\ boot.create_bucket = Answered
    /\ boot.region = "us-west-2"
    /\ boot.exists
    /\ Len(CreateRequests) = 1

\* A value that is there and is not empty once whitespace is stripped.
NonEmptyValue(value) == value.type = "str" /\ Strip(value.s) # ""

\* C31: validate_config returns True exactly for a mapping that holds each
\* of the four required keys with a value that is not empty after
\* stripping whitespace.
C31_ValidateConfig ==
    ~IsNone(boot.valid)
       => (Val(boot.valid) <=>
             /\ Val(boot.loaded).type = "dict"
             /\ \A key \in REQUIRED_KEYS :
                   /\ key \in DOMAIN Val(boot.loaded).d
                   /\ NonEmptyValue(Val(boot.loaded).d[key]))

\* Caller q writes its copy back and returns, having read the document,
\* with code c in it, before caller p's revoke_code(c) wrote; p has
\* returned from that call without error.
WritesOverRevoke(p, q, c) ==
    /\ p # q
    /\ pc[q] \in {"gen_write", "rev_write"}
    /\ pc'[q] = "idle"
    /\ last'[q].outcome = "returned"
    /\ last[p].op = "revoke"
    /\ last[p].outcome = "returned"
    /\ last[p].found
    /\ KeyOf(last[p]) = Some(c)
    /\ cur[q].readAt < last[p].wroteAt
    /\ c \in DOMAIN cur[q].codes

\* The entry of c is stored again as q read it, and resolve_code(c) gives
\* its path.
RevocationUndone(q, c) ==
    /\ c \in DOMAIN ReadCodes(bucket')
    /\ ReadCodes(bucket')[c] = cur[q].codes[c]
    /\ ResolveCode(ReadCodes(bucket'), c, now') = Some(cur[q].codes[c].path)

\* C32 as stated: whenever a generate_code or another revoke_code read the
\* document before revoke_code(c) wrote and writes its copy afterwards,
\* then once both have returned without error the entry for c is present
\* again and resolve_code(c) returns its path.
C32_AnyRacingWriterUndoes ==
    [][\A p, q \in Procs : \A c \in RaceArgs :
          WritesOverRevoke(p, q, c) => RevocationUndone(q, c)]_vars

\* C32 amended: the same, for a racing generate_code or a racing
\* revoke_code of another code; a racing revoke_code of c itself leaves c
\* removed.
C32_RacingWriterUndoesRevocation ==
    [][\A p, q \in Procs : \A c \in RaceArgs :
          WritesOverRevoke(p, q, c) =>
             IF cur[q].op = "revoke" /\ Upper(Val(cur[q].arg)) = c
             THEN c \notin DOMAIN ReadCodes(bucket')
             ELSE RevocationUndone(q, c)]_vars

\* C32 witness: a revoke_code found and removed a code, a generate_code of
\* the other caller that read before that write has written after it, both
\* returned without error, and the code resolves again.
C32_Witness ==
    \E p, q \in Procs :
       /\ p # q
       /\ last[p].op = "revoke" /\ last[p].outcome = "returned"
       /\ last[p].found
       /\ last[q].op = "generate" /\ last[q].outcome = "returned"
       /\ last[q].readAt < last[p].wroteAt
       /\ last[p].wroteAt < last[q].wroteAt
       /\ Val(KeyOf(last[p])) \in DOMAIN ReadCodes(bucket)
       /\ ~IsNone(ResolveCode(ReadCodes(bucket), Val(KeyOf(last[p])), now))

\* The abstract table the stored document stands for: code -> grant.
Table == ReadCodes(bucket)

\* The call of the caller that returns or raises in this step.
Ends(op) == cur[Caller].op = op /\ pc'[Caller] = "idle" /\ pc[Caller] # "idle"
EndsAtRead(op) == pc[Caller] = "idle" /\ last' # last /\ last'[Caller].op = op
Returned == last'[Caller].outcome = "returned"

\* What one step does to the table when calls do not overlap: a
\* generate_code(p, e) that returns c adds the grant c -> p, expiring e
\* hours after an instant of the call; a revoke_code(c) that returns takes
\* c out; every other step, failed calls included, leaves the table as it
\* is; and a resolve_code(c) that returns gives the path of c's grant when
\* there is one and now is not past its expiry, else None.
TableStep ==
    LET after == ReadCodes(bucket')
        done == last'[Caller]
    IN  /\ IF Ends("generate") /\ Returned
           THEN /\ done.result = done.code
                /\ Val(done.code) \notin DOMAIN Table
                /\ DOMAIN after = DOMAIN Table \cup {Val(done.code)}
                /\ \A c \in DOMAIN Table : after[c] = Table[c]
                /\ after[Val(done.code)].path = Val(done.path)
                /\ IF IsNone(done.hours)
                   THEN ~HasExpiry(after[Val(done.code)])
                   ELSE /\ HasExpiry(after[Val(done.code)])
                        /\ FromIsoFormat(after[Val(done.code)].expires_at)
                              \in {t + Val(done.hours) : t \in 0..now}
           ELSE IF Ends("revoke") /\ Returned
           THEN after = DictPop(Table, Upper(Val(done.arg)))
           ELSE after = Table
        /\ ((Ends("resolve") \/ EndsAtRead("resolve")) /\ Returned) =>
              LET c == Upper(Val(done.arg))
              IN  done.result =
                     IF /\ c \in DOMAIN Table
                        /\ ~(HasExpiry(Table[c])
                               /\ now > FromIsoFormat(Table[c].expires_at))
                     THEN Some(Table[c].path)
                     ELSE None

\* C33: with one read-modify-write at a time, the stored document is a
\* code -> grant table: generate_code adds the grant of the code it
\* returns, revoke_code removes it, nothing else changes it, and
\* resolve_code(c) returns p exactly when c's grant is in the table with
\* path p and now is not past its expiry.
C33_DocumentIsGrantTable == [][TableStep]_vars

\* C33 witness: a code generate_code returned with an expiry is resolved
\* by the next call after the clock passed that expiry, and is absent,
\* with its grant still in the table.
C33_Witness ==
    /\ last[Caller].op = "resolve"
    /\ last[Caller].outcome = "returned"
    /\ last[Caller].result = None
    /\ last[Caller].prev.op = "generate"
    /\ last[Caller].prev.outcome = "returned"
    /\ last[Caller].prev.key = KeyOf(last[Caller])
    /\ Val(KeyOf(last[Caller])) \in DOMAIN Table
    /\ HasExpiry(Table[Val(KeyOf(last[Caller]))])
    /\ now > FromIsoFormat(Table[Val(KeyOf(last[Caller]))].expires_at)

\* A generate_code or revoke_code of the caller ends in this step: at its
\* get_object request, or at its put_object request.
MutationEndsAtRead ==
    /\ pc[Caller] = "idle"
    /\ last' # last
    /\ last'[Caller].op \in {"generate", "revoke"}
MutationEndsAtWrite ==
    /\ pc[Caller] \in {"gen_write", "rev_write"}
    /\ pc'[Caller] = "idle"

\* C34: a generate_code or revoke_code that fails leaves the document as
\* it was before the call and gives no code.  A call that ends at its read
\* ends with a ClientError other than not-found and has issued no
\* put_object; a call whose put_object stored nothing ends with the
\* ClientError of that request.
C34_FailedCallChangesNothing ==
    [][LET done == last'[Caller]
       IN  /\ MutationEndsAtRead =>
                /\ done.outcome = "ClientError"
                /\ ~IsNone(done.error)
                /\ Val(done.error) \notin {"NoSuchKey", "404"}
                /\ done.puts = 0
           /\ (MutationEndsAtWrite /\ nputs' = nputs) =>
                /\ done.outcome = "ClientError"
                /\ done.error = PutObjectError(FALSE)
                /\ done.puts = 1
           /\ ((MutationEndsAtRead \/ MutationEndsAtWrite)
                   /\ done.outcome # "returned") =>
                /\ done.result = None
                /\ bucket' = bucket
                /\ nputs' = done.readAt]_vars

\* C34 witness: a generate_code whose put_object was refused has ended
\* with the ClientError, a code drawn and none returned, nothing written
\* since it read a document that holds an entry.
C34_Witness ==
    /\ pc[Caller] = "idle"
    /\ last[Caller].op = "generate"
    /\ last[Caller].outcome = "ClientError"
    /\ last[Caller].puts = 1
    /\ ~IsNone(last[Caller].code)
    /\ last[Caller].result = None
    /\ nputs = last[Caller].readAt
    /\ PriorCode \in DOMAIN Table

\* A resolve_code of the caller returns in this step, for a code whose
\* entry is stored.
ResolveReturns(c) ==
    /\ Ends("resolve") \/ EndsAtRead("resolve")
    /\ Returned
    /\ c = Upper(Val(last'[Caller].arg))
    /\ c \in DOMAIN Table

\* C35: resolve_code compares strictly: an entry with expires_at resolves
\* to its path while now <= expires_at, the instant now = expires_at
\* included, and is absent only when now > expires_at; an entry without
\* expires_at resolves to its path at every instant.
C35_StrictExpiry ==
    [][\A c \in DOMAIN Table :
          ResolveReturns(c) =>
             /\ ~HasExpiry(Table[c]) =>
                   last'[Caller].result = Some(Table[c].path)
             /\ (HasExpiry(Table[c])
                    /\ now <= FromIsoFormat(Table[c].expires_at)) =>
                   last'[Caller].result = Some(Table[c].path)
             /\ (HasExpiry(Table[c])
                    /\ now > FromIsoFormat(Table[c].expires_at)) =>
                   last'[Caller].result = None]_vars

\* C35 witness: a resolve_code has just returned the path of an entry
\* whose expires_at is the present instant, later than its creation.
C35_Witness ==
    /\ pc[Caller] = "idle"
    /\ last[Caller].op = "resolve"
    /\ last[Caller].outcome = "returned"
    /\ ~IsNone(last[Caller].result)
    /\ Val(KeyOf(last[Caller])) \in DOMAIN Table
    /\ HasExpiry(Table[Val(KeyOf(last[Caller]))])
    /\ now = FromIsoFormat(Table[Val(KeyOf(last[Caller]))].expires_at)
    /\ now > 0

\* The entry of code c is stored and now is past its expires_at.
ExpiredEntry(c) ==
    /\ c \in DOMAIN Table
    /\ HasExpiry(Table[c])
    /\ now > FromIsoFormat(Table[c].expires_at)

\* The step takes the entry of c out of the document.
Removes(c) == c \in DOMAIN Table /\ c \notin DOMAIN ReadCodes(bucket')

\* C36 as stated: through the share menu no step removes an entry that is
\* expired, so the set of expired entries only grows.
C36_ExpiredNeverRemoved ==
    [][\A c \in DOMAIN Table : ExpiredEntry(c) => ~Removes(c)]_vars

\* C36 amended: through the share menu an entry is removed only by the
\* revoke action, for the code typed, after its resolve_code returned the
\* entry's path; a code that resolves to absent is refused and no
\* revoke_code is called, so an entry that was expired when the revoke
\* action resolved it stays.  An entry that expires between that
\* resolve_code and the revoke_code is removed although it is expired.
C36_RemovedOnlyAfterResolving ==
    [][/\ \A c \in DOMAIN Table :
            Removes(c) =>
               /\ upc = "rv_revoke"
               /\ ui.code = Some(c)
               /\ pc[Caller] = "rev_write"
               /\ last[Caller].op = "resolve"
               /\ last[Caller].outcome = "returned"
               /\ last[Caller].result = Some(Table[c].path)
       /\ (upc = "rv_resolve" /\ upc' # upc
              /\ last[Caller].outcome = "returned"
              /\ last[Caller].result = None) =>
            (upc' = "menu" /\ ncalls' = ncalls /\ bucket' = bucket)]_vars

\* C36 witness: the revoke action has refused the code of a stored entry
\* that is expired, and the entry is still stored.
C36_Witness ==
    /\ upc = "menu"
    /\ ui.flow = "share_revoke"
    /\ ui.out = "Code not found or already expired."
    /\ ~IsNone(ui.code)
    /\ ExpiredEntry(Val(ui.code))
    /\ last[Caller].op = "resolve"
    /\ last[Caller].found

\* The while loop of browse_flow or download_flow is running.
Navigating == upc \in {"br_list", "br_select", "dl_list", "dl_select"}

\* The history as a stack of the prefixes entered from: empty exactly at
\* the user's root, the root at its bottom, each prefix entered from the
\* one below it and the current prefix from its top.
HistoryIsPath ==
    /\ (ui.history = << >>) <=> (ui.prefix = RootPrefix)
    /\ ui.history # << >> =>
          /\ ui.history[1] = RootPrefix
          /\ \A i \in 1..(Len(ui.history) - 1) :
                /\ StartsWith(ui.history[i + 1], ui.history[i])
                /\ ui.history[i + 1] # ui.history[i]
          /\ StartsWith(ui.prefix, ui.history[Len(ui.history)])

\* One step of the loop: the history changes by one push of the current
\* prefix, on entering one of the folders listed, or by one pop, taken
\* only from a non-empty history and making its top the current prefix;
\* 'b' is among the choices exactly when the history is not empty.
HistoryStep ==
    /\ Len(ui'.history) > Len(ui.history) =>
          /\ upc \in {"br_select", "dl_select"}
          /\ ui'.history = Append(ui.history, ui.prefix)
          /\ \E i \in 1..Len(ui.folders) : ui'.prefix = ui.folders[i]
    /\ Len(ui'.history) < Len(ui.history) =>
          /\ ui.history # << >>
          /\ ui'.history = SubSeq(ui.history, 1, Len(ui.history) - 1)
          /\ ui'.prefix = ui.history[Len(ui.history)]
          /\ \/ upc \in {"br_select", "dl_select"}
             \/ /\ upc \in {"br_list", "dl_list"}
                /\ listing.folders = << >> /\ listing.files = << >>
    /\ (Len(ui'.history) = Len(ui.history) /\ upc' \notin {"menu", "df_list"}) =>
          (ui'.history = ui.history /\ ui'.prefix = ui.prefix)
    /\ upc \in {"br_select", "dl_select"} =>
          ([kind |-> "b"] \in Choices(ui) <=> ui.history # << >>)

\* C37: in browse_flow and download_flow the history is a stack never
\* popped when empty: 'b' is offered only with a non-empty history,
\* entering a folder pushes the current prefix, going back (by 'b' or from
\* an empty folder) restores the prefix the current folder was entered
\* from, and the history is empty exactly at the user's root.
C37_HistoryIsStack ==
    [][(Navigating => HistoryIsPath /\ HistoryStep)
          /\ (Navigating' => HistoryIsPath')]_vars

\* C37 witness: browse_flow entered a folder from the root, found it
\* empty and went back by itself: the root is listed again with an empty
\* history.
C37_Witness ==
    /\ ui.flow = "browse"
    /\ upc = "br_list"
    /\ ui.out = "This folder is empty."
    /\ ui.history = << >>
    /\ ui.prefix = RootPrefix
    /\ ui.folders # << >>

\* C38: every prefix browse_flow or download_flow lists, with list_folder
\* in the loop or with list_all_objects for "download all", starts with
\* "<username>/"; the store returns only common prefixes that extend the
\* prefix queried.
C38_ListsInsideNamespace ==
    (ui.flow \in {"browse", "download"} /\ listing.op # "none") =>
       /\ StartsWith(listing.prefix, RootPrefix)
       /\ \A i \in 1..Len(listing.folders) :
             StartsWith(listing.folders[i], listing.prefix)

\* C38 witness: download_flow lists a folder two levels below the root,
\* entered through a folder of the root.
C38_Witness ==
    /\ ui.flow = "download"
    /\ upc = "dl_list"
    /\ listing.op = "list_folder"
    /\ Len(ui.history) = 2
    /\ listing.prefix # ui.history[2]
    /\ StartsWith(listing.prefix, ui.history[2])

\* One step of browse_flow's loop.  After list_folder: a failure ends the
\* flow; an empty root ends it and an empty sub-folder lists its parent,
\* both without a prompt; anything else is shown and prompted for.  At the
\* prompt 'q' is always a choice; the answer ends the flow with no further
\* list_folder call, or starts exactly one.
BrowseStep ==
    /\ (upc = "br_list" /\ upc' = "menu") =>
          /\ ui'.lists = ui.lists
          /\ \/ listing.status = "raised" /\ ui'.out = "Failed to list files:"
             \/ /\ listing.status = "returned"
                /\ listing.folders = << >> /\ listing.files = << >>
                /\ ui.prefix = RootPrefix
                /\ ui'.out = "Nothing uploaded yet."
    /\ (upc = "br_list" /\ listing.status = "raised" /\ ui' # ui) =>
          upc' = "menu"
    /\ (upc = "br_list" /\ listing.status = "returned" /\ ui' # ui
           /\ listing.folders = << >> /\ listing.files = << >>) =>
          IF ui.prefix = RootPrefix
          THEN upc' = "menu"
          ELSE /\ upc' = "br_list"
               /\ ui'.prefix = ui.history[Len(ui.history)]
               /\ ui'.lists = ui.lists + 1
               /\ listing' = StartListing("list_folder", ui'.prefix)
    /\ upc = "br_select" => [kind |-> "q"] \in Choices(ui)
    /\ (upc = "br_select" /\ upc' # upc) =>
          \/ upc' = "menu" /\ ui'.lists = ui.lists /\ listing' = NoListing
          \/ /\ upc' = "br_list"
             /\ ui'.lists = ui.lists + 1
             /\ listing' = StartListing("list_folder", ui'.prefix)
    /\ (ui.flow = "browse" /\ ui'.flow = "browse"
           /\ ui'.nflows = ui.nflows /\ ui'.lists # ui.lists) =>
          (upc' = "br_list" /\ ui'.lists = ui.lists + 1)

Attempts == SelectSeq(boot.requests, LAMBDA r : r.op = "list_buckets")

\* What validate_config is given, None standing for no configuration.
LoadedValue == IF IsNone(boot.loaded) THEN JNull ELSE Val(boot.loaded)

\* C40: the menu is entered only after verify_connection returned True
\* for the client in use and ensure_bucket_exists returned without error
\* for it; the connection is attempted at most twice, the second time only
\* after the answer to reconfigure was yes; when the program has ended
\* otherwise its status is 1 and the menu was not shown; and the setup
\* wizard has run before the first attempt exactly when the saved
\* configuration is missing or fails validate_config.
C40_StartupOrdering ==
    /\ (boot.pc = "menu" \/ upc = "menu") =>
          /\ boot.pc = "menu" /\ upc = "menu"
          /\ boot.verified = Some(TRUE)
          /\ IsNone(boot.raised)
          /\ IsNone(ExitStatus)
          /\ \/ boot.head_bucket.kind = "ok"
             \/ /\ boot.head_bucket.kind = "ClientError"
                /\ boot.create_bucket.kind = "ok"
          /\ \A i \in 1..Len(boot.requests) :
                (boot.requests[i].op = "list_buckets") <=> (i <= Len(Attempts))
          /\ Val(boot.config).d["aws_region"].s = boot.region
    /\ Len(Attempts) <= 2
    /\ Len(Attempts) = 2 => boot.reconfigure = Some("y")
    /\ boot.pc \in {"exited", "crashed"} =>
          /\ ExitStatus = Some(1)
          /\ upc # "menu"
          /\ \/ boot.verified # Some(TRUE)
             \/ ~IsNone(boot.raised)
    /\ boot.pc = "exited" =>
          /\ boot.verified = Some(FALSE)
          /\ boot.reconfigure = Some("n") \/ Len(Attempts) = 2
          /\ \A i \in 1..Len(boot.requests) :
                boot.requests[i].op = "list_buckets"
    /\ boot.pc \notin {"load", "wizard"} =>
          /\ boot.setup <=>
                (boot.file.state = "missing" \/ ~ValidateConfig(LoadedValue))
    /\ (boot.setup /\ Attempts = << >>) => boot.wizards = 1
    /\ (boot.pc \in {"load", "wizard", "prompt_username"}) =>
          Attempts = << >>

\* C40 witness: a saved configuration that fails validate_config made the
\* wizard run, the first connection attempt failed, the user reconfigured,
\* the second attempt succeeded, the bucket was created and the menu is
\* shown.
C40_Witness ==
    /\ boot.pc = "menu"
    /\ upc = "menu"
    /\ boot.valid = Some(FALSE)
    /\ boot.setup
    /\ boot.wizards = 2
    /\ Len(Attempts) = 2
    /\ boot.create_bucket.kind = "ok"

====
